---- MODULE Spec2Model ----
(***************************************************************************)
(* A model of cortex_scaffold.py: the name normalizers, the validators,    *)
(* the artifact generators, the build phase of main and the structure      *)
(* validator.                                                              *)
(*                                                                         *)
(* A Python str is a sequence of one-character strings.  A Python value    *)
(* handed to a validator is a tagged record (Text, NoneVal, IntVal), so that  *)
(* the behaviour on non-text values is the code's and not assumed.         *)
(***************************************************************************)
EXTENDS Integers, Sequences, FiniteSets, TLC

VARIABLES
    fn,      \* pure-call specifications: the function that was applied ("" = none yet)
    arg,     \* pure-call specifications: the input value
    ret,     \* pure-call specifications: the values returned so far, in call order
    pc,               \* main: the position of the run ("idle" = no run)
    inspire,          \* main: args.inspire names a readable .txt file
    defaults,         \* main: default_project_name, default_modules, default_description
    project_name,     \* main: the str read at line 1309
    modules,          \* main: the list built at line 1325
    description,      \* main: the str read at line 1341
    options,          \* main: init_git, create_github, github_private
    kebab_name,       \* main: the str built at line 1353 (<<>> = not yet)
    snake_package,    \* main: the str built at line 1354 (<<>> = not yet)
    project_path,     \* main: the Path built at line 1357 (<<>> = not yet)
    name_result,      \* main: what validate_project_name returned at line 1315
    mods_result,      \* main: what validate_modules returned at line 1332
    fs,               \* the file system below the current directory
    step,             \* main: the number of build operations carried out
    clock,            \* the year the system clock shows
    github_url,       \* main: the URL create_github_repo returned, or "None"
    github_token,     \* main: os.getenv("GITHUB_TOKEN") of line 1466 ("unread" before it)
    structure_result, \* main: what validate_structure returned at line 1494
    exit_status,      \* main: "running", or the exit status of the process
    exit_reason       \* main: the error message the run ended with, by kind

callVars == <<fn, arg, ret>>
nameVars == <<kebab_name, snake_package, project_path>>
mainVars == <<pc, inspire, defaults, project_name, modules, description, options,
              kebab_name, snake_package, project_path,
              name_result, mods_result, fs, step, clock, github_url, github_token,
              structure_result, exit_status, exit_reason>>
vars == <<fn, arg, ret, pc, inspire, defaults, project_name, modules, description,
          options, kebab_name, snake_package, project_path,
          name_result, mods_result, fs, step, clock, github_url, github_token,
          structure_result, exit_status, exit_reason>>

----------------------------------------------------------------------------
(* Characters                                                              *)

LowerSeq == <<"a", "b", "c", "d", "e", "f", "g", "h", "i", "j", "k", "l", "m", "n", "o", "p", "q", "r", "s", "t", "u", "v", "w", "x", "y", "z">>
UpperSeq == <<"A", "B", "C", "D", "E", "F", "G", "H", "I", "J", "K", "L", "M", "N", "O", "P", "Q", "R", "S", "T", "U", "V", "W", "X", "Y", "Z">>
DigitSeq == <<"0", "1", "2", "3", "4", "5", "6", "7", "8", "9">>

Range(s) == {s[i] : i \in DOMAIN s}

LowerChars == Range(LowerSeq)
UpperChars == Range(UpperSeq)
DigitChars == Range(DigitSeq)

\* the characters \s matches, among those the model draws
SpaceChars == {" ", "\t"}

\* In the string operations below the argument s is bound to its value
\* (t \in {s}), so that it is evaluated once however often it is referred to.

\* str.lower() on one character
LowerChar(c) ==
    IF c \in UpperChars
    THEN LowerSeq[CHOOSE i \in DOMAIN UpperSeq : UpperSeq[i] = c]
    ELSE c

\* str.lower()
Lower(s) == CHOOSE r \in {[i \in DOMAIN t |-> LowerChar(t[i])] : t \in {s}} : TRUE

\* s from its i-th character on, every maximal run of characters of class
\* replaced by the single character rep
RECURSIVE SubRunsFrom(_, _, _, _)
SubRunsFrom(s, i, class, rep) ==
    IF i > Len(s) THEN <<>>
    ELSE IF s[i] \in class
         THEN IF i < Len(s) /\ s[i + 1] \in class
              THEN SubRunsFrom(s, i + 1, class, rep)
              ELSE <<rep>> \o SubRunsFrom(s, i + 1, class, rep)
         ELSE <<s[i]>> \o SubRunsFrom(s, i + 1, class, rep)

\* re.sub(r'[class]+', rep, s)
SubRuns(s, class, rep) ==
    CHOOSE r \in {SubRunsFrom(t, 1, class, rep) : t \in {s}} : TRUE

\* re.sub(r'[^keep]', '', s)
KeepOnly(s, keep) == SelectSeq(s, LAMBDA c : c \in keep)

\* the positions of s that hold a character outside class
Kept(s, class) == {i \in DOMAIN s : s[i] \notin class}

\* str.lstrip(chars)
LStrip(s, class) ==
    CHOOSE r \in
        { IF Kept(t, class) = {} THEN <<>>
          ELSE SubSeq(t, CHOOSE i \in Kept(t, class) :
                            \A j \in Kept(t, class) : i <= j, Len(t)) : t \in {s} } :
        TRUE

\* str.rstrip(chars)
RStrip(s, class) ==
    CHOOSE r \in
        { IF Kept(t, class) = {} THEN <<>>
          ELSE SubSeq(t, 1, CHOOSE i \in Kept(t, class) :
                               \A j \in Kept(t, class) : j <= i) : t \in {s} } :
        TRUE

\* str.strip(chars); str.strip() is Strip(s, SpaceChars)
Strip(s, class) == RStrip(LStrip(s, class), class)

----------------------------------------------------------------------------
(* NameNormalizer                                                          *)

\* to_kebab_case with the hyphen runs collapsed before the other characters
\* are removed
to_kebab_case_collapse_first(name) ==
    LET n1 == SubRuns(name, SpaceChars \cup {"_"}, "-")
        n2 == Lower(n1)
        n3 == SubRuns(n2, {"-"}, "-")
        n4 == KeepOnly(n3, LowerChars \cup DigitChars \cup {"-"})
    IN  Strip(n4, {"-"})

to_kebab_case(name) ==
    LET n1 == SubRuns(name, SpaceChars \cup {"_"}, "-")
        n2 == Lower(n1)
        n3 == KeepOnly(n2, LowerChars \cup DigitChars \cup {"-"})
        n4 == SubRuns(n3, {"-"}, "-")
    IN  Strip(n4, {"-"})

\* to_snake_case with only whitespace runs, not hyphens, turned into '_'
to_snake_case_spaces_only(name) ==
    LET n1 == SubRuns(name, SpaceChars, "_")
        n2 == Lower(n1)
        n3 == KeepOnly(n2, LowerChars \cup DigitChars \cup {"_"})
        n4 == SubRuns(n3, {"_"}, "_")
    IN  Strip(n4, {"_"})

to_snake_case(name) ==
    LET n1 == SubRuns(name, SpaceChars \cup {"-"}, "_")
        n2 == Lower(n1)
        n3 == KeepOnly(n2, LowerChars \cup DigitChars \cup {"_"})
        n4 == SubRuns(n3, {"_"}, "_")
    IN  Strip(n4, {"_"})

----------------------------------------------------------------------------
(* Python values                                                           *)

Text(s) == [t |-> "str", s |-> s, n |-> 0]
NoneVal == [t |-> "none", s |-> <<>>, n |-> 0]
IntVal(k) == [t |-> "int", s |-> <<>>, n |-> k]

\* `not v`
Falsy(v) ==
    \/ v.t = "none"
    \/ v.t = "int" /\ v.n = 0
    \/ v.t = "str" /\ v.s = <<>>

\* str.isidentifier() on ASCII text
IsIdentifier(s) ==
    /\ s # <<>>
    /\ s[1] \in LowerChars \cup UpperChars \cup {"_"}
    /\ \A i \in DOMAIN s : s[i] \in LowerChars \cup UpperChars \cup DigitChars \cup {"_"}

\* keyword.kwlist, the set keyword.iskeyword tests
KwList ==
    { <<"F", "a", "l", "s", "e">>, <<"N", "o", "n", "e">>, <<"T", "r", "u", "e">>, <<"a", "n", "d">>, <<"a", "s">>, <<"a", "s", "s", "e", "r", "t">>, <<"a", "s", "y", "n", "c">>, <<"a", "w", "a", "i", "t">>,
      <<"b", "r", "e", "a", "k">>, <<"c", "l", "a", "s", "s">>, <<"c", "o", "n", "t", "i", "n", "u", "e">>, <<"d", "e", "f">>, <<"d", "e", "l">>, <<"e", "l", "i", "f">>, <<"e", "l", "s", "e">>,
      <<"e", "x", "c", "e", "p", "t">>, <<"f", "i", "n", "a", "l", "l", "y">>, <<"f", "o", "r">>, <<"f", "r", "o", "m">>, <<"g", "l", "o", "b", "a", "l">>, <<"i", "f">>, <<"i", "m", "p", "o", "r", "t">>,
      <<"i", "n">>, <<"i", "s">>, <<"l", "a", "m", "b", "d", "a">>, <<"n", "o", "n", "l", "o", "c", "a", "l">>, <<"n", "o", "t">>, <<"o", "r">>, <<"p", "a", "s", "s">>, <<"r", "a", "i", "s", "e">>,
      <<"r", "e", "t", "u", "r", "n">>, <<"t", "r", "y">>, <<"w", "h", "i", "l", "e">>, <<"w", "i", "t", "h">>, <<"y", "i", "e", "l", "d">> }

IsKeyword(s) == s \in KwList

reserved_names ==
    { <<"i", "m", "p", "o", "r", "t">>, <<"f", "r", "o", "m">>, <<"a", "s">>, <<"i", "f">>, <<"e", "l", "s", "e">>, <<"e", "l", "i", "f">>, <<"f", "o", "r">>, <<"w", "h", "i", "l", "e">>,
      <<"d", "e", "f">>, <<"c", "l", "a", "s", "s">>, <<"r", "e", "t", "u", "r", "n">>, <<"p", "a", "s", "s">>, <<"b", "r", "e", "a", "k">>, <<"c", "o", "n", "t", "i", "n", "u", "e">>, <<"t", "r", "y">>,
      <<"e", "x", "c", "e", "p", "t">>, <<"f", "i", "n", "a", "l", "l", "y">>, <<"r", "a", "i", "s", "e">>, <<"a", "s", "s", "e", "r", "t">>, <<"w", "i", "t", "h">>, <<"l", "a", "m", "b", "d", "a">>,
      <<"y", "i", "e", "l", "d">>, <<"d", "e", "l">>, <<"g", "l", "o", "b", "a", "l">>, <<"n", "o", "n", "l", "o", "c", "a", "l">>, <<"i", "n">>, <<"i", "s">>, <<"n", "o", "t">>, <<"a", "n", "d">>, <<"o", "r">>,
      <<"N", "o", "n", "e">>, <<"T", "r", "u", "e">>, <<"F", "a", "l", "s", "e">>, <<"p", "r", "i", "n", "t">>, <<"i", "n", "p", "u", "t">>, <<"o", "p", "e", "n">>, <<"f", "i", "l", "e">>,
      <<"m", "a", "i", "n">>, <<"i", "n", "i", "t">>, <<"u", "t", "i", "l", "s">>, <<"c", "o", "n", "f", "i", "g">>, <<"t", "e", "s", "t">>, <<"d", "o", "c", "s">> }

reserved_dirs ==
    { <<".">>, <<".", ".">>, <<".", "g", "i", "t">>, <<".", "v", "e", "n", "v">>, <<"v", "e", "n", "v">>, <<"e", "n", "v">>, <<"n", "o", "d", "e", "_", "m", "o", "d", "u", "l", "e", "s">> }

MaxNameLen == 50

----------------------------------------------------------------------------
(* Validator                                                               *)

\* what a call produced: it raised, or it returned (ok, error)
Raised == [raised |-> TRUE, ok |-> FALSE, error |-> [kind |-> "raised", snake |-> <<>>]]
Invalid(kind, snake) ==
    [raised |-> FALSE, ok |-> FALSE, error |-> [kind |-> kind, snake |-> snake]]
Valid == [raised |-> FALSE, ok |-> TRUE, error |-> [kind |-> "none", snake |-> <<>>]]

\* the chain of checks on the canonical form, lines 879-914
CheckSnakeName(snake_name) ==
    IF snake_name = <<>> THEN Invalid("becomes_empty", <<>>)
    ELSE IF Len(snake_name) > MaxNameLen THEN Invalid("too_long", <<>>)
    ELSE IF Len(snake_name) < 1 THEN Invalid("too_short", <<>>)
    ELSE IF ~IsIdentifier(snake_name) THEN Invalid("not_identifier", snake_name)
    ELSE IF IsKeyword(snake_name) THEN Invalid("keyword", snake_name)
    ELSE IF Lower(snake_name) \in reserved_names THEN Invalid("reserved", snake_name)
    ELSE IF snake_name[1] \in DigitChars THEN Invalid("starts_with_digit", snake_name)
    ELSE Valid

validate_module_name(module_name) ==
    IF Falsy(module_name) THEN Invalid("empty", <<>>)
    ELSE IF module_name.t # "str" THEN Raised   \* no attribute 'strip'
    ELSE IF Strip(module_name.s, SpaceChars) = <<>> THEN Invalid("empty", <<>>)
    ELSE CheckSnakeName(to_snake_case(module_name.s))

\* ModuleStep remembering the raw entry instead of its canonical name
ModuleStep_raw_seen(acc, module) ==
    LET r == validate_module_name(module)
        snake_name == to_snake_case(module.s)
    IN  IF acc.raised \/ r.raised THEN [acc EXCEPT !.raised = TRUE]
        ELSE IF ~r.ok
             THEN [acc EXCEPT !.errors = Append(@, [module |-> module, error |-> r.error])]
        ELSE IF module.s \in acc.seen_names
             THEN [acc EXCEPT !.errors =
                      Append(@, [module |-> module,
                                 error |-> [kind |-> "duplicate", snake |-> snake_name]])]
        ELSE [acc EXCEPT !.seen_names = @ \cup {module.s}]

\* one iteration of the loop of validate_modules, lines 931-939
ModuleStep(acc, module) ==
    LET r == validate_module_name(module)
        snake_name == to_snake_case(module.s)
    IN  IF acc.raised \/ r.raised THEN [acc EXCEPT !.raised = TRUE]
        ELSE IF ~r.ok
             THEN [acc EXCEPT !.errors = Append(@, [module |-> module, error |-> r.error])]
        ELSE IF snake_name \in acc.seen_names
             THEN [acc EXCEPT !.errors =
                      Append(@, [module |-> module,
                                 error |-> [kind |-> "duplicate", snake |-> snake_name]])]
        ELSE [acc EXCEPT !.seen_names = @ \cup {snake_name}]

RECURSIVE ModuleLoop(_, _)
ModuleLoop(acc, mods) ==
    IF mods = <<>> THEN acc
    ELSE ModuleLoop(ModuleStep(acc, Head(mods)), Tail(mods))

\* validate_modules returning after the first error it finds
validate_modules_first_error(mods) ==
    LET acc == ModuleLoop([raised |-> FALSE, errors |-> <<>>, seen_names |-> {}], mods)
    IN  [raised |-> acc.raised,
         ok |-> ~acc.raised /\ Len(acc.errors) = 0,
         errors |-> IF acc.raised THEN <<>>
                    ELSE IF acc.errors = <<>> THEN <<>> ELSE <<acc.errors[1]>>]

validate_modules(mods) ==
    LET acc == ModuleLoop([raised |-> FALSE, errors |-> <<>>, seen_names |-> {}], mods)
    IN  [raised |-> acc.raised,
         ok |-> ~acc.raised /\ Len(acc.errors) = 0,
         errors |-> IF acc.raised THEN <<>> ELSE acc.errors]

\* Path.cwd() / name, as a path relative to the current directory: joining
\* the empty string gives the directory itself
PathJoin(path, name) == IF name = <<>> THEN path ELSE Append(path, name)

Cwd == <<>>

\* Path.exists() in a file system given by its directories and files
PathExists(dirs, files, path) == path = Cwd \/ path \in dirs \/ path \in files

validate_project_name(pname, check_exists, dirs, files) ==
    LET kebab == to_kebab_case(pname)
    IN  IF pname = <<>> \/ Strip(pname, SpaceChars) = <<>>
        THEN Invalid("empty", <<>>)
        ELSE IF kebab = <<>> THEN Invalid("becomes_empty", <<>>)
        ELSE IF Len(kebab) > MaxNameLen THEN Invalid("too_long", <<>>)
        ELSE IF Len(kebab) < 1 THEN Invalid("too_short", <<>>)
        ELSE IF ~(\A i \in DOMAIN kebab :
                     kebab[i] \in LowerChars \cup DigitChars \cup {"-"})
             THEN Invalid("invalid_characters", kebab)
        ELSE IF kebab[1] = "-" \/ kebab[Len(kebab)] = "-"
             THEN Invalid("hyphen_at_end", <<>>)
        ELSE IF Lower(kebab) \in reserved_dirs THEN Invalid("reserved_dir", <<>>)
        ELSE IF check_exists /\ PathExists(dirs, files, PathJoin(Cwd, kebab))
             THEN Invalid("exists", kebab)
        ELSE Valid

----------------------------------------------------------------------------
(* ArtifactGenerator: a generated text is its template, named by the       *)
(* generator, and the values that fill the template's holes                *)

Content(gen, holes) == [gen |-> gen, holes |-> holes]

\* [to_snake_case(m) for m in mods]
SnakeModules(mods) == [i \in DOMAIN mods |-> to_snake_case(mods[i])]

generate_gitignore(pname) == Content("generate_gitignore", <<>>)

\* year is what datetime.now().year returns at the call: main passes no year
generate_mit_license(year) == Content("generate_mit_license", <<year, <<"Y", "o", "u", "r", " ", "N", "a", "m", "e">>>>)

\* the file main writes as favicon.ico: the generator takes no argument,
\* its bytes are ico_data below
generate_favicon_ico == Content("generate_favicon_ico", <<>>)

\* bytes([v]): a value outside 0..255 raises ValueError, shown as -1
ToByte(v) == IF v \in 0..255 THEN v ELSE -1

\* n.to_bytes(4, 'little')
ToBytes4Little(n) == [i \in 1..4 |-> (n \div (256 ^ (i - 1))) % 256]

\* bytearray(n): n zero bytes
ZeroBytes(n) == [i \in 1..n |-> 0]

\* generate_favicon_ico, lines 275-282
width == 16
height == 16
bpp == 32
pixel_data_size == width * height * (bpp \div 8)
bmp_header_size == 40
total_image_size == bmp_header_size + pixel_data_size

\* lines 285-288: reserved, type, number of images
ico_header == <<0, 0>> \o <<1, 0>> \o <<1, 0>>

\* line 298
offset == 6 + 16

\* lines 291-299
ico_directory_entry ==
    <<ToByte(width)>> \o <<ToByte(height)>> \o <<0>> \o <<0>> \o <<1, 0>> \o <<32, 0>>
    \o ToBytes4Little(total_image_size) \o ToBytes4Little(offset)

\* bmp_header with the height of the icon instead of twice the height
bmp_header_single_height ==
    <<40, 0, 0, 0>> \o ToBytes4Little(width) \o ToBytes4Little(height)
    \o <<1, 0>> \o <<32, 0>> \o <<0, 0, 0, 0>> \o ToBytes4Little(pixel_data_size)
    \o <<0, 0, 0, 0>> \o <<0, 0, 0, 0>> \o <<0, 0, 0, 0>> \o <<0, 0, 0, 0>>

\* lines 303-314
bmp_header ==
    <<40, 0, 0, 0>> \o ToBytes4Little(width) \o ToBytes4Little(height * 2)
    \o <<1, 0>> \o <<32, 0>> \o <<0, 0, 0, 0>> \o ToBytes4Little(pixel_data_size)
    \o <<0, 0, 0, 0>> \o <<0, 0, 0, 0>> \o <<0, 0, 0, 0>> \o <<0, 0, 0, 0>>

\* lines 322-327: bytes([blue, green, red, alpha]) of the pixel (x, y)
PixelBytes(x, y) ==
    LET blue == 100 + ((x * 3) % 50)
        green == 50 + ((y * 2) % 30)
        red == 30
        alpha == 255
    IN  <<ToByte(blue), ToByte(green), ToByte(red), ToByte(alpha)>>

\* the rows of the loop of line 319 in the order y = 0, 1, ..., height - 1
pixels_top_down ==
    [j \in 1..(width * height * 4) |->
        LET k == (j - 1) \div 4
        IN  PixelBytes(k % width, k \div width)[((j - 1) % 4) + 1]]

\* lines 318-327: the k-th pixel appended (k from 0) is pixel x = k % width
\* of the row y = height - 1 - k // width
pixels ==
    [j \in 1..(width * height * 4) |->
        LET k == (j - 1) \div 4
        IN  PixelBytes(k % width, height - 1 - (k \div width))[((j - 1) % 4) + 1]]

\* lines 330-331
and_mask_size == (width * height + 7) \div 8
and_mask == ZeroBytes(and_mask_size)

\* lines 334-338: the bytes generate_favicon_ico returns
ico_data == ico_header \o ico_directory_entry \o bmp_header \o pixels \o and_mask

generate_logging_utils == Content("generate_logging_utils", <<>>)

generate_config_py(pname) == Content("generate_config_py", <<pname>>)

generate_config_example_py == Content("generate_config_example_py", <<>>)

generate_module_py(module_name, package_name) ==
    Content("generate_module_py", <<module_name, package_name, to_snake_case(module_name)>>)

generate_main_py(pname, package_name, mods) ==
    Content("generate_main_py",
            <<pname, package_name, SnakeModules(mods), mods>>)

\* the text generate_main_py returns, character by character
NL == <<"\n">>

\* sep.join(parts)
RECURSIVE Join(_, _)
Join(sep, parts) ==
    IF parts = <<>> THEN <<>>
    ELSE IF Len(parts) = 1 THEN parts[1]
    ELSE parts[1] \o sep \o Join(sep, Tail(parts))

\* sm is [to_snake_case(module) for module in modules]
module_imports(package_name, sm) ==
    [i \in DOMAIN sm |->
        <<"f", "r", "o", "m", " ">> \o package_name \o <<".">> \o sm[i] \o <<" ", "i", "m", "p", "o", "r", "t", " ", "i", "n", "i", "t", "_", "m", "o", "d", "u", "l", "e", " ", "a", "s", " ">>
            \o sm[i] \o <<"_", "i", "n", "i", "t", ",", " ", "p", "i", "n", "g", " ", "a", "s", " ">> \o sm[i] \o <<"_", "p", "i", "n", "g">>]

init_calls(sm) == [i \in DOMAIN sm |-> <<" ", " ", " ", " ">> \o sm[i] \o <<"_", "i", "n", "i", "t", "(", ")">>]

ping_routes_reversed(sm, mods) ==
    [i \in DOMAIN sm |->
        LET j == Len(sm) + 1 - i
        IN  Join(NL, << <<"@", "a", "p", "p", ".", "g", "e", "t", "(", "\"", "/">> \o sm[j] \o <<"/", "p", "i", "n", "g", "\"", ")">>,
                        <<"a", "s", "y", "n", "c", " ", "d", "e", "f", " ">> \o sm[j] \o <<"_", "p", "i", "n", "g", "_", "r", "o", "u", "t", "e", "(", ")", ":">>,
                        <<" ", " ", " ", " ", "\"", "\"", "\"", "H", "e", "a", "l", "t", "h", " ", "c", "h", "e", "c", "k", " ", "e", "n", "d", "p", "o", "i", "n", "t", " ", "f", "o", "r", " ">> \o mods[j] \o <<" ", "m", "o", "d", "u", "l", "e", ".", "\"", "\"", "\"">>,
                        <<" ", " ", " ", " ", "r", "e", "t", "u", "r", "n", " ">> \o sm[j] \o <<"_", "p", "i", "n", "g", "(", ")">> >>)]

ping_routes(sm, mods) ==
    [i \in DOMAIN sm |->
        Join(NL, << <<"@", "a", "p", "p", ".", "g", "e", "t", "(", "\"", "/">> \o sm[i] \o <<"/", "p", "i", "n", "g", "\"", ")">>,
                    <<"a", "s", "y", "n", "c", " ", "d", "e", "f", " ">> \o sm[i] \o <<"_", "p", "i", "n", "g", "_", "r", "o", "u", "t", "e", "(", ")", ":">>,
                    <<" ", " ", " ", " ", "\"", "\"", "\"", "H", "e", "a", "l", "t", "h", " ", "c", "h", "e", "c", "k", " ", "e", "n", "d", "p", "o", "i", "n", "t", " ", "f", "o", "r", " ">> \o mods[i] \o <<" ", "m", "o", "d", "u", "l", "e", ".", "\"", "\"", "\"">>,
                    <<" ", " ", " ", " ", "r", "e", "t", "u", "r", "n", " ">> \o sm[i] \o <<"_", "p", "i", "n", "g", "(", ")">> >>)]

module_list(sm) == [i \in DOMAIN sm |-> <<" ", " ", " ", " ", " ", " ", " ", " ", "\"">> \o sm[i] \o <<"\"", ",">>]

generate_main_py_text(pname, package_name, mods) ==
    LET sm == SnakeModules(mods)
        imports == Join(NL, module_imports(package_name, sm))
        inits == Join(NL, init_calls(sm))
        routes == Join(NL \o NL, ping_routes(sm, mods))
        module_list_str == Join(NL, module_list(sm))
    IN  Join(NL, <<
            <<"\"", "\"", "\"", "M", "a", "i", "n", " ", "F", "a", "s", "t", "A", "P", "I", " ", "a", "p", "p", "l", "i", "c", "a", "t", "i", "o", "n", " ", "f", "o", "r", " ">> \o pname \o <<".", "\"", "\"", "\"">>,
            <<"f", "r", "o", "m", " ", "c", "o", "n", "t", "e", "x", "t", "l", "i", "b", " ", "i", "m", "p", "o", "r", "t", " ", "a", "s", "y", "n", "c", "c", "o", "n", "t", "e", "x", "t", "m", "a", "n", "a", "g", "e", "r">>,
            <<"f", "r", "o", "m", " ", "p", "a", "t", "h", "l", "i", "b", " ", "i", "m", "p", "o", "r", "t", " ", "P", "a", "t", "h">>,
            <<"f", "r", "o", "m", " ", "f", "a", "s", "t", "a", "p", "i", " ", "i", "m", "p", "o", "r", "t", " ", "F", "a", "s", "t", "A", "P", "I">>,
            <<"f", "r", "o", "m", " ", "f", "a", "s", "t", "a", "p", "i", ".", "r", "e", "s", "p", "o", "n", "s", "e", "s", " ", "i", "m", "p", "o", "r", "t", " ", "F", "i", "l", "e", "R", "e", "s", "p", "o", "n", "s", "e", ",", " ", "J", "S", "O", "N", "R", "e", "s", "p", "o", "n", "s", "e">>,
            imports,
            <<>>,
            <<>>,
            <<"d", "e", "f", " ", "i", "n", "i", "t", "_", "a", "l", "l", "_", "m", "o", "d", "u", "l", "e", "s", "(", ")", ":">>,
            <<" ", " ", " ", " ", "\"", "\"", "\"", "I", "n", "i", "t", "i", "a", "l", "i", "z", "e", " ", "a", "l", "l", " ", "r", "e", "g", "i", "s", "t", "e", "r", "e", "d", " ", "m", "o", "d", "u", "l", "e", "s", ".", "\"", "\"", "\"">>,
            inits,
            <<>>,
            <<>>,
            <<"@", "a", "s", "y", "n", "c", "c", "o", "n", "t", "e", "x", "t", "m", "a", "n", "a", "g", "e", "r">>,
            <<"a", "s", "y", "n", "c", " ", "d", "e", "f", " ", "l", "i", "f", "e", "s", "p", "a", "n", "(", "a", "p", "p", ":", " ", "F", "a", "s", "t", "A", "P", "I", ")", ":">>,
            <<" ", " ", " ", " ", "\"", "\"", "\"", "L", "i", "f", "e", "s", "p", "a", "n", " ", "c", "o", "n", "t", "e", "x", "t", " ", "m", "a", "n", "a", "g", "e", "r", " ", "f", "o", "r", " ", "s", "t", "a", "r", "t", "u", "p", " ", "a", "n", "d", " ", "s", "h", "u", "t", "d", "o", "w", "n", " ", "e", "v", "e", "n", "t", "s", ".", "\"", "\"", "\"">>,
            <<" ", " ", " ", " ", "#", " ", "S", "t", "a", "r", "t", "u", "p">>,
            <<" ", " ", " ", " ", "i", "n", "i", "t", "_", "a", "l", "l", "_", "m", "o", "d", "u", "l", "e", "s", "(", ")">>,
            <<" ", " ", " ", " ", "y", "i", "e", "l", "d">>,
            <<" ", " ", " ", " ", "#", " ", "S", "h", "u", "t", "d", "o", "w", "n", " ", "(", "i", "f", " ", "n", "e", "e", "d", "e", "d", ",", " ", "a", "d", "d", " ", "c", "l", "e", "a", "n", "u", "p", " ", "c", "o", "d", "e", " ", "h", "e", "r", "e", ")">>,
            <<>>,
            <<>>,
            <<"a", "p", "p", " ", "=", " ", "F", "a", "s", "t", "A", "P", "I", "(">>,
            <<" ", " ", " ", " ", "t", "i", "t", "l", "e", "=", "\"">> \o pname \o <<"\"", ",">>,
            <<" ", " ", " ", " ", "d", "e", "s", "c", "r", "i", "p", "t", "i", "o", "n", "=", "\"", "A", " ", "F", "a", "s", "t", "A", "P", "I", " ", "a", "p", "p", "l", "i", "c", "a", "t", "i", "o", "n", "\"", ",">>,
            <<" ", " ", " ", " ", "v", "e", "r", "s", "i", "o", "n", "=", "\"", "0", ".", "1", ".", "0", "\"", ",">>,
            <<" ", " ", " ", " ", "l", "i", "f", "e", "s", "p", "a", "n", "=", "l", "i", "f", "e", "s", "p", "a", "n">>,
            <<")">>,
            <<>>,
            <<>>,
            <<"@", "a", "p", "p", ".", "g", "e", "t", "(", "\"", "/", "\"", ")">>,
            <<"a", "s", "y", "n", "c", " ", "d", "e", "f", " ", "i", "n", "d", "e", "x", "(", ")", ":">>,
            <<" ", " ", " ", " ", "\"", "\"", "\"", "I", "n", "d", "e", "x", " ", "r", "o", "u", "t", "e", " ", "l", "i", "s", "t", "i", "n", "g", " ", "a", "l", "l", " ", "a", "v", "a", "i", "l", "a", "b", "l", "e", " ", "m", "o", "d", "u", "l", "e", "s", ".", "\"", "\"", "\"">>,
            <<" ", " ", " ", " ", "r", "e", "t", "u", "r", "n", " ", "J", "S", "O", "N", "R", "e", "s", "p", "o", "n", "s", "e", "(", "c", "o", "n", "t", "e", "n", "t", "=", "{">>,
            <<" ", " ", " ", " ", " ", " ", " ", " ", "\"", "p", "r", "o", "j", "e", "c", "t", "\"", ":", " ", "\"">> \o pname \o <<"\"", ",">>,
            <<" ", " ", " ", " ", " ", " ", " ", " ", "\"", "m", "o", "d", "u", "l", "e", "s", "\"", ":", " ", "[">>,
            module_list_str,
            <<" ", " ", " ", " ", " ", " ", " ", " ", "]">>,
            <<" ", " ", " ", " ", "}", ")">>,
            <<>>,
            <<>>,
            <<"@", "a", "p", "p", ".", "g", "e", "t", "(", "\"", "/", "f", "a", "v", "i", "c", "o", "n", ".", "i", "c", "o", "\"", ",", " ", "i", "n", "c", "l", "u", "d", "e", "_", "i", "n", "_", "s", "c", "h", "e", "m", "a", "=", "F", "a", "l", "s", "e", ")">>,
            <<"a", "s", "y", "n", "c", " ", "d", "e", "f", " ", "f", "a", "v", "i", "c", "o", "n", "(", ")", ":">>,
            <<" ", " ", " ", " ", "\"", "\"", "\"", "S", "e", "r", "v", "e", " ", "f", "a", "v", "i", "c", "o", "n", ".", "\"", "\"", "\"">>,
            <<" ", " ", " ", " ", "f", "a", "v", "i", "c", "o", "n", "_", "p", "a", "t", "h", " ", "=", " ", "P", "a", "t", "h", "(", "_", "_", "f", "i", "l", "e", "_", "_", ")", ".", "p", "a", "r", "e", "n", "t", " ", "/", " ", "\"", "f", "a", "v", "i", "c", "o", "n", ".", "i", "c", "o", "\"">>,
            <<" ", " ", " ", " ", "r", "e", "t", "u", "r", "n", " ", "F", "i", "l", "e", "R", "e", "s", "p", "o", "n", "s", "e", "(", "f", "a", "v", "i", "c", "o", "n", "_", "p", "a", "t", "h", ")">>,
            <<>>,
            <<>>,
            routes,
            <<>>,
            <<>>,
            <<"i", "f", " ", "_", "_", "n", "a", "m", "e", "_", "_", " ", "=", "=", " ", "\"", "_", "_", "m", "a", "i", "n", "_", "_", "\"", ":">>,
            <<" ", " ", " ", " ", "i", "m", "p", "o", "r", "t", " ", "u", "v", "i", "c", "o", "r", "n">>,
            <<" ", " ", " ", " ", "u", "v", "i", "c", "o", "r", "n", ".", "r", "u", "n", "(", "a", "p", "p", ",", " ", "h", "o", "s", "t", "=", "\"", "0", ".", "0", ".", "0", ".", "0", "\"", ",", " ", "p", "o", "r", "t", "=", "8", "0", "0", "0", ")">>,
            <<>> >>)

generate_readme(pname, descr, mods) ==
    Content("generate_readme",
            <<pname, descr, SnakeModules(mods),
              to_snake_case(pname)>>)

generate_note_for_agents(pname, descr, mods) ==
    Content("generate_note_for_agents",
            <<pname, descr, SnakeModules(mods),
              to_snake_case(pname), Len(mods)>>)

generate_module_docs_readme(module_name) ==
    Content("generate_module_docs_readme", <<module_name, to_snake_case(module_name)>>)

generate_test_module(module_name, package_name) ==
    Content("generate_test_module",
            <<module_name, package_name, to_snake_case(module_name)>>)

generate_test_readme == Content("generate_test_readme", <<>>)

generate_docs_readme(pname) == Content("generate_docs_readme", <<pname>>)

generate_requirements_txt == Content("generate_requirements_txt", <<>>)

generate_package_init(package_name) == Content("generate_package_init", <<package_name>>)

generate_utils_init == Content("generate_utils_init", <<>>)

\* what enhance_readme_with_openai returns: the text of the extraction
\* service when the call succeeds, base_readme on every failure
enhance_readme_with_openai(base_readme, succeeded) ==
    IF succeeded THEN Content("enhance_readme_with_openai", <<base_readme>>)
    ELSE base_readme

----------------------------------------------------------------------------
(* The file system: dirs is the set of directories, files maps each file   *)
(* to its content.  A path is the sequence of its components below the     *)
(* current directory.                                                      *)

NoFiles == [p \in {} |-> <<>>]

\* the path and the directories above it, below the current directory
Ancestors(path) == {SubSeq(path, 1, k) : k \in 1..Len(path)}

Parent(path) == SubSeq(path, 1, Len(path) - 1)

\* path / "a/b/c"
RECURSIVE Under(_, _)
Under(path, names) ==
    IF names = <<>> THEN path ELSE Under(PathJoin(path, Head(names)), Tail(names))

\* Path.mkdir(parents=True, exist_ok=True): fails when the path or one of
\* its parents is a file
Mkdir(f, path) ==
    IF \E a \in Ancestors(path) : a \in DOMAIN f.files
    THEN [f EXCEPT !.error = TRUE]
    ELSE [f EXCEPT !.dirs = @ \cup Ancestors(path)]

create_directory(f, path) == Mkdir(f, path)

\* write_file without the mkdir of the parent: the write fails when the
\* parent directory does not exist
write_file_no_mkdir(f, path, content) ==
    IF Parent(path) \notin f.dirs \cup {Cwd} \/ path \in f.dirs
    THEN [f EXCEPT !.error = TRUE]
    ELSE [f EXCEPT !.files = (path :> content) @@ f.files]

\* write_file and write_binary_file: the parent is created when missing,
\* then the file is created or overwritten
write_file(f, path, content) ==
    LET made == Mkdir(f, Parent(path))
    IN  IF made.error \/ path \in made.dirs
        THEN [f EXCEPT !.error = TRUE]
        ELSE [made EXCEPT !.files = (path :> content) @@ made.files]

----------------------------------------------------------------------------
(* The build phase of main, lines 1367-1433, as the sequence of its        *)
(* operations                                                              *)

MkdirOp(path) == [kind |-> "mkdir", path |-> path, content |-> <<>>]
WriteOp(path, content) == [kind |-> "write", path |-> path, content |-> content]

RECURSIVE Flatten(_)
Flatten(seqs) == IF seqs = <<>> THEN <<>> ELSE Head(seqs) \o Flatten(Tail(seqs))

\* DirOps without the create_directory call for test/docs
DirOps_no_test_docs(ppath, pkg, mods) ==
    << MkdirOp(ppath),
       MkdirOp(Under(ppath, <<<<"c", "o", "n", "f", "i", "g">>>>)),
       MkdirOp(Under(ppath, <<<<"d", "o", "c", "s">>>>)),
       MkdirOp(Under(ppath, <<<<"d", "o", "w", "n", "l", "o", "a", "d", "s">>>>)),
       MkdirOp(Under(ppath, <<<<"t", "e", "s", "t">>>>)),
       MkdirOp(Under(ppath, <<pkg>>)),
       MkdirOp(Under(ppath, <<pkg, <<"u", "t", "i", "l", "s">>>>)) >>
    \o [i \in DOMAIN mods |->
           MkdirOp(Under(ppath, <<<<"d", "o", "c", "s">>, to_snake_case(mods[i])>>))]

\* lines 1367-1379
DirOps(ppath, pkg, mods) ==
    << MkdirOp(ppath),
       MkdirOp(Under(ppath, <<<<"c", "o", "n", "f", "i", "g">>>>)),
       MkdirOp(Under(ppath, <<<<"d", "o", "c", "s">>>>)),
       MkdirOp(Under(ppath, <<<<"d", "o", "w", "n", "l", "o", "a", "d", "s">>>>)),
       MkdirOp(Under(ppath, <<<<"t", "e", "s", "t">>>>)),
       MkdirOp(Under(ppath, <<<<"t", "e", "s", "t">>, <<"d", "o", "c", "s">>>>)),
       MkdirOp(Under(ppath, <<pkg>>)),
       MkdirOp(Under(ppath, <<pkg, <<"u", "t", "i", "l", "s">>>>)) >>
    \o [i \in DOMAIN mods |->
           MkdirOp(Under(ppath, <<<<"d", "o", "c", "s">>, to_snake_case(mods[i])>>))]

\* lines 1413-1426
ModuleFileOps(ppath, pkg, module) ==
    LET snake_module == to_snake_case(module)
    IN  << WriteOp(Under(ppath, <<pkg, snake_module \o <<".", "p", "y">>>>),
                   generate_module_py(module, pkg)),
           WriteOp(Under(ppath, <<<<"d", "o", "c", "s">>, snake_module, <<"R", "E", "A", "D", "M", "E", ".", "m", "d">>>>),
                   generate_module_docs_readme(module)),
           WriteOp(Under(ppath, <<<<"t", "e", "s", "t">>, <<"t", "e", "s", "t", "_">> \o snake_module \o <<".", "p", "y">>>>),
                   generate_test_module(module, pkg)) >>

\* lines 1384-1433; readme is the text main writes to README.md and year
\* the clock's year when the licence is generated
FileOps(ppath, pname, descr, pkg, mods, readme, year) ==
    << WriteOp(Under(ppath, <<<<"R", "E", "A", "D", "M", "E", ".", "m", "d">>>>), readme),
       WriteOp(Under(ppath, <<<<"N", "O", "T", "E", "_", "F", "O", "R", "_", "A", "G", "E", "N", "T", "S", ".", "m", "d">>>>),
               generate_note_for_agents(pname, descr, mods)),
       WriteOp(Under(ppath, <<<<"L", "I", "C", "E", "N", "S", "E">>>>), generate_mit_license(year)),
       WriteOp(Under(ppath, <<<<".", "g", "i", "t", "i", "g", "n", "o", "r", "e">>>>), generate_gitignore(pname)),
       WriteOp(Under(ppath, <<<<"r", "e", "q", "u", "i", "r", "e", "m", "e", "n", "t", "s", ".", "t", "x", "t">>>>), generate_requirements_txt),
       WriteOp(Under(ppath, <<<<"f", "a", "v", "i", "c", "o", "n", ".", "i", "c", "o">>>>), generate_favicon_ico),
       WriteOp(Under(ppath, <<<<"m", "a", "i", "n", ".", "p", "y">>>>),
               generate_main_py(pname, pkg, mods)),
       WriteOp(Under(ppath, <<<<"c", "o", "n", "f", "i", "g">>, <<"c", "o", "n", "f", "i", "g", ".", "p", "y">>>>),
               generate_config_py(pname)),
       WriteOp(Under(ppath, <<<<"c", "o", "n", "f", "i", "g">>, <<"c", "o", "n", "f", "i", "g", "_", "e", "x", "a", "m", "p", "l", "e", ".", "p", "y">>>>),
               generate_config_example_py),
       WriteOp(Under(ppath, <<pkg, <<"_", "_", "i", "n", "i", "t", "_", "_", ".", "p", "y">>>>),
               generate_package_init(pkg)),
       WriteOp(Under(ppath, <<pkg, <<"u", "t", "i", "l", "s">>, <<"_", "_", "i", "n", "i", "t", "_", "_", ".", "p", "y">>>>),
               generate_utils_init),
       WriteOp(Under(ppath, <<pkg, <<"u", "t", "i", "l", "s">>, <<"l", "o", "g", "g", "i", "n", "g", ".", "p", "y">>>>),
               generate_logging_utils) >>
    \o Flatten([i \in DOMAIN mods |->
                   ModuleFileOps(ppath, pkg, mods[i])])
    \o << WriteOp(Under(ppath, <<<<"d", "o", "c", "s">>, <<"R", "E", "A", "D", "M", "E", ".", "m", "d">>>>),
                  generate_docs_readme(pname)),
          WriteOp(Under(ppath, <<<<"t", "e", "s", "t">>, <<"R", "E", "A", "D", "M", "E", ".", "m", "d">>>>), generate_test_readme),
          WriteOp(Under(ppath, <<<<"d", "o", "w", "n", "l", "o", "a", "d", "s">>, <<".", "g", "i", "t", "k", "e", "e", "p">>>>),
                  Content("empty", <<>>)) >>

\* one operation of the build applied to the file system
ApplyOp(f, op) ==
    IF op.kind = "mkdir" THEN create_directory(f, op.path)
    ELSE write_file(f, op.path, op.content)

----------------------------------------------------------------------------
(* StructureValidator                                                      *)

\* lines 801-825
required_files(package_name, mods) ==
    << <<<<"R", "E", "A", "D", "M", "E", ".", "m", "d">>>>, <<<<"L", "I", "C", "E", "N", "S", "E">>>>, <<<<".", "g", "i", "t", "i", "g", "n", "o", "r", "e">>>>, <<<<"m", "a", "i", "n", ".", "p", "y">>>>,
       <<<<"r", "e", "q", "u", "i", "r", "e", "m", "e", "n", "t", "s", ".", "t", "x", "t">>>>, <<<<"N", "O", "T", "E", "_", "F", "O", "R", "_", "A", "G", "E", "N", "T", "S", ".", "m", "d">>>>, <<<<"f", "a", "v", "i", "c", "o", "n", ".", "i", "c", "o">>>>,
       <<package_name, <<"_", "_", "i", "n", "i", "t", "_", "_", ".", "p", "y">>>>,
       <<package_name, <<"u", "t", "i", "l", "s">>, <<"_", "_", "i", "n", "i", "t", "_", "_", ".", "p", "y">>>>,
       <<package_name, <<"u", "t", "i", "l", "s">>, <<"l", "o", "g", "g", "i", "n", "g", ".", "p", "y">>>>,
       <<<<"c", "o", "n", "f", "i", "g">>, <<"c", "o", "n", "f", "i", "g", ".", "p", "y">>>>, <<<<"c", "o", "n", "f", "i", "g">>, <<"c", "o", "n", "f", "i", "g", "_", "e", "x", "a", "m", "p", "l", "e", ".", "p", "y">>>>,
       <<<<"d", "o", "c", "s">>, <<"R", "E", "A", "D", "M", "E", ".", "m", "d">>>>, <<<<"t", "e", "s", "t">>, <<"R", "E", "A", "D", "M", "E", ".", "m", "d">>>> >>
    \o Flatten([i \in DOMAIN mods |->
          LET snake_module == to_snake_case(mods[i])
          IN  << <<package_name, snake_module \o <<".", "p", "y">>>>,
                 <<<<"d", "o", "c", "s">>, snake_module, <<"R", "E", "A", "D", "M", "E", ".", "m", "d">>>>,
                 <<<<"t", "e", "s", "t">>, <<"t", "e", "s", "t", "_">> \o snake_module \o <<".", "p", "y">>>> >>])

\* lines 833-844
required_dirs(package_name, mods) ==
    << <<<<"c", "o", "n", "f", "i", "g">>>>, <<<<"d", "o", "c", "s">>>>, <<<<"d", "o", "w", "n", "l", "o", "a", "d", "s">>>>, <<<<"t", "e", "s", "t">>>>,
       <<<<"t", "e", "s", "t">>, <<"d", "o", "c", "s">>>>, <<package_name>>, <<package_name, <<"u", "t", "i", "l", "s">>>> >>
    \o [i \in DOMAIN mods |-> <<<<"d", "o", "c", "s">>, to_snake_case(mods[i])>>]

\* the error list of validate_structure, in the order the code appends
StructureErrors(f, ppath, package_name, mods) ==
    LET rf == required_files(package_name, mods)
        rd == required_dirs(package_name, mods)
        missing_file(rel) ==
            ~PathExists(f.dirs, DOMAIN f.files, Under(ppath, rel))
        missing_dir(rel) == Under(ppath, rel) \notin f.dirs \cup {Cwd}
    IN  [i \in DOMAIN SelectSeq(rf, missing_file) |->
            [kind |-> "Missing", path |-> SelectSeq(rf, missing_file)[i]]]
        \o
        [i \in DOMAIN SelectSeq(rd, missing_dir) |->
            [kind |-> "Missing directory", path |-> SelectSeq(rd, missing_dir)[i]]]

validate_structure(f, ppath, pname, package_name, mods) ==
    LET errors == StructureErrors(f, ppath, package_name, mods)
    IN  [ok |-> errors = <<>>, errors |-> errors]

----------------------------------------------------------------------------
(* main: the inputs the model draws                                        *)

MaxTypedModules == 2
MaxTicks == 1

\* what the user types at "Project name"; <<>> accepts the default
TypedNames == { <<>>, <<" ", "d", "o", "c", "s", " ">>, <<"v", "e", "n", "v">>, <<"!", "!">> }

\* the pieces between the commas of what the user types at "Modules"
ModulePieces == { <<>>, <<" ", "u", "s", "e", "r", "s", " ">>, <<"A", "u", "t", "h">>, <<"a", "u", "t", "h">>, <<"c", "l", "a", "s", "s">> }

TypedModules == UNION {[1..k -> ModulePieces] : k \in 1..MaxTypedModules}

\* what the user types at "Short description"; "" accepts the default
TypedDescriptions == {"", "typed description"}

\* what the extraction service answers: nothing usable, or a JSON object
\* with a project name, the pieces of a comma-separated module list and a
\* description
NoAnswer == [failed |-> TRUE, project_name |-> <<>>, modules |-> <<>>, description |-> ""]

ServiceAnswers ==
    { NoAnswer,
      [failed |-> FALSE, project_name |-> <<"e", "n", "v">>,
       modules |-> <<<<"t", "a", "s", "k", "s">>, <<"c", "l", "a", "s", "s">>>>, description |-> "extracted description"] }

Years == 2025..(2025 + MaxTicks)

----------------------------------------------------------------------------
(* main                                                                    *)

NotRun == [raised |-> FALSE, ok |-> FALSE, error |-> [kind |-> "not_run", snake |-> <<>>]]
ModsNotRun == [raised |-> FALSE, ok |-> FALSE, errors |-> <<>>]
NoStructureResult == [ok |-> FALSE, errors |-> <<[kind |-> "not_run", path |-> <<>>]>>]

EmptyFs == [dirs |-> {}, files |-> NoFiles, error |-> FALSE]

\* lines 1292-1294
InitialDefaults ==
    [project_name |-> <<"m", "y", "_", "f", "a", "s", "t", "a", "p", "i", "_", "p", "r", "o", "j", "e", "c", "t">>,
     modules |-> <<<<"u", "s", "e", "r", "s">>, <<"a", "u", "t", "h">>>>,
     description |-> "A micromodular project powered by CortexScaffold and FastAPI"]

NoOptions == [init_git |-> FALSE, create_github |-> FALSE, github_private |-> FALSE]

MainFresh ==
    /\ inspire = FALSE
    /\ defaults = InitialDefaults
    /\ project_name = <<>>
    /\ modules = <<>>
    /\ description = ""
    /\ options = NoOptions
    /\ kebab_name = <<>>
    /\ snake_package = <<>>
    /\ project_path = <<>>
    /\ name_result = NotRun
    /\ mods_result = ModsNotRun
    /\ fs = EmptyFs
    /\ step = 0
    /\ clock = 2025
    /\ github_url = "None"
    /\ github_token = "unread"
    /\ structure_result = NoStructureResult
    /\ exit_status = "running"
    /\ exit_reason = ""

MainIdle == pc = "idle" /\ MainFresh

\* sys.exit(1) after the message of the given kind, or an uncaught exception
Exit(reason) ==
    /\ pc' = "exit"
    /\ exit_status' = 1
    /\ exit_reason' = reason

\* get_user_input: the stripped response, or the default when it is empty
get_user_input(response, default) ==
    IF Strip(response, SpaceChars) # <<>> THEN Strip(response, SpaceChars) ELSE default

\* [m.strip() for m in text.split(",") if m.strip()], text given by its pieces
SplitModules(pieces) ==
    LET stripped == [i \in DOMAIN pieces |-> Strip(pieces[i], SpaceChars)]
    IN  SelectSeq(stripped, LAMBDA m : m # <<>>)

\* the response is empty after strip(): one piece of white space only
BlankResponse(pieces) == Len(pieces) = 1 /\ Strip(pieces[1], SpaceChars) = <<>>

\* extract_project_info_from_ideas, lines 1057-1085: every failure gives
\* (None, [], None); invalid modules are skipped
extract_project_info_from_ideas(answer) ==
    IF answer.failed
    THEN [project_name |-> <<>>, modules |-> <<>>, description |-> ""]
    ELSE [project_name |-> Strip(answer.project_name, SpaceChars),
          modules |-> SelectSeq(SplitModules(answer.modules),
                                LAMBDA m : validate_module_name(Text(m)).ok),
          description |-> answer.description]

\* Path.cwd() / to_kebab_case(project_name): the directory of the project,
\* as lines 977 and 1353-1357 build it
target_path == PathJoin(Cwd, to_kebab_case(project_name))

\* the directory of the project exists
TargetExists == PathExists(fs.dirs, DOMAIN fs.files, target_path)

\* lines 1278-1284 and 1296
ParseArgs ==
    /\ pc = "start"
    /\ \E given \in {"absent", "unusable", "usable"} :
          IF given = "unusable"
          THEN Exit("bad_inspire_file") /\ UNCHANGED inspire
          ELSE /\ inspire' = (given = "usable")
               /\ pc' = IF given = "usable" THEN "extract" ELSE "ask_name"
               /\ UNCHANGED <<exit_status, exit_reason>>
    /\ UNCHANGED <<callVars, nameVars, defaults, project_name, modules, description, options,
                   name_result, mods_result, fs, step, clock, github_url, github_token,
                   structure_result>>

\* lines 1296-1306
Extract ==
    /\ pc = "extract"
    /\ \E answer \in ServiceAnswers :
          LET e == extract_project_info_from_ideas(answer)
          IN  defaults' =
                [project_name |-> IF e.project_name # <<>> THEN e.project_name
                                  ELSE defaults.project_name,
                 modules |-> IF e.modules # <<>> THEN e.modules ELSE defaults.modules,
                 description |-> IF e.description # "" THEN e.description
                                 ELSE defaults.description]
    /\ pc' = "ask_name"
    /\ UNCHANGED <<callVars, nameVars, inspire, project_name, modules, description, options,
                   name_result, mods_result, fs, step, clock, github_url, github_token,
                   structure_result, exit_status, exit_reason>>

\* lines 1309-1312
AskProjectName ==
    /\ pc = "ask_name"
    /\ \E typed \in TypedNames :
          /\ project_name' = get_user_input(typed, defaults.project_name)
          /\ IF project_name' = <<>>
             THEN Exit("name_required")
             ELSE pc' = "validate_name" /\ UNCHANGED <<exit_status, exit_reason>>
    /\ UNCHANGED <<callVars, nameVars, inspire, defaults, modules, description, options,
                   name_result, mods_result, fs, step, clock, github_url, github_token,
                   structure_result>>

\* the test `if not is_valid` of line 1316
NameAccepted(result) == result.ok

\* lines 1315-1318
ValidateProjectName ==
    /\ pc = "validate_name"
    /\ name_result' = validate_project_name(project_name, TRUE, fs.dirs, DOMAIN fs.files)
    /\ IF NameAccepted(name_result')
       THEN pc' = "ask_modules" /\ UNCHANGED <<exit_status, exit_reason>>
       ELSE Exit("name_invalid")
    /\ UNCHANGED <<callVars, nameVars, inspire, defaults, project_name, modules, description,
                   options, mods_result, fs, step, clock, github_url, github_token, structure_result>>

\* lines 1321-1329
AskModules ==
    /\ pc = "ask_modules"
    /\ \E typed \in TypedModules :
          LET modules_input == IF BlankResponse(typed) THEN defaults.modules ELSE typed
          IN  /\ modules' = SplitModules(modules_input)
              /\ IF modules_input = <<>> \/ modules' = <<>>
                 THEN Exit("no_modules")
                 ELSE pc' = "validate_modules" /\ UNCHANGED <<exit_status, exit_reason>>
    /\ UNCHANGED <<callVars, nameVars, inspire, defaults, project_name, description, options,
                   name_result, mods_result, fs, step, clock, github_url, github_token,
                   structure_result>>

\* ModulesAccepted with the result of the validation ignored
ModulesAccepted_ignored(result) == TRUE

\* the test `if not is_valid` of line 1333
ModulesAccepted(result) == result.ok

\* lines 1332-1339
ValidateModules ==
    /\ pc = "validate_modules"
    /\ mods_result' = validate_modules([i \in DOMAIN modules |-> Text(modules[i])])
    /\ IF ModulesAccepted(mods_result')
       THEN pc' = "options" /\ UNCHANGED <<exit_status, exit_reason>>
       ELSE Exit("modules_invalid")
    /\ UNCHANGED <<callVars, nameVars, inspire, defaults, project_name, modules, description,
                   options, name_result, fs, step, clock, github_url, github_token, structure_result>>

\* lines 1341-1357
AskOptions ==
    /\ pc = "options"
    /\ \E typed \in TypedDescriptions :
          description' = IF typed # "" THEN typed ELSE defaults.description
    /\ \E init_git \in BOOLEAN, create_github \in BOOLEAN, public \in BOOLEAN :
          options' = [init_git |-> init_git,
                      create_github |-> init_git /\ create_github,
                      github_private |-> init_git /\ create_github /\ ~public]
    /\ kebab_name' = to_kebab_case(project_name)
    /\ snake_package' = to_snake_case(project_name)
    /\ project_path' = PathJoin(Cwd, kebab_name')
    /\ pc' = "precheck"
    /\ UNCHANGED <<callVars, inspire, defaults, project_name, modules, name_result,
                   mods_result, fs, step, clock, github_url, github_token, structure_result,
                   exit_status, exit_reason>>

\* TargetBlocks with the second look at the directory left out
TargetBlocks_unchecked(exists) == FALSE

\* the test `if project_path.exists()` of line 1361
TargetBlocks(exists) == exists

\* lines 1357-1366
PreBuildCheck ==
    /\ pc = "precheck"
    /\ IF TargetBlocks(PathExists(fs.dirs, DOMAIN fs.files, project_path))
       THEN Exit("dir_exists")
       ELSE pc' = "build" /\ UNCHANGED <<exit_status, exit_reason>>
    /\ UNCHANGED <<callVars, nameVars, inspire, defaults, project_name, modules, description,
                   options, name_result, mods_result, fs, step, clock, github_url, github_token,
                   structure_result>>

\* BuildOps with the files written before the directories are created
BuildOps_files_first(enhanced) ==
    LET base_readme == generate_readme(project_name, description, modules)
        readme == IF inspire THEN enhance_readme_with_openai(base_readme, enhanced)
                  ELSE base_readme
    IN  FileOps(project_path, project_name, description, snake_package, modules,
                readme, clock)
        \o DirOps(project_path, snake_package, modules)

\* the operations of the build in program order, lines 1367-1433; enhanced
\* tells whether enhance_readme_with_openai got a text from the service
BuildOps(enhanced) ==
    LET base_readme == generate_readme(project_name, description, modules)
        readme == IF inspire THEN enhance_readme_with_openai(base_readme, enhanced)
                  ELSE base_readme
    IN  DirOps(project_path, snake_package, modules)
        \o FileOps(project_path, project_name, description, snake_package, modules,
                   readme, clock)

BuildLen == Len(BuildOps(FALSE))

BuildDone == pc \in {"venv", "git_init", "git_add", "git_commit", "github",
                     "remote_add", "validate_structure", "summary", "done"}

\* one create_directory or write_file call of the build; an exception of
\* the call is not caught and ends the run
BuildStep ==
    /\ pc = "build"
    /\ step < BuildLen
    /\ \E enhanced \in (IF inspire THEN BOOLEAN ELSE {FALSE}) :
          LET next == ApplyOp(fs, BuildOps(enhanced)[step + 1])
          IN  IF next.error
              THEN Exit("build_error") /\ UNCHANGED <<fs, step>>
              ELSE /\ fs' = next
                   /\ step' = step + 1
                   /\ pc' = IF step + 1 = BuildLen THEN "venv" ELSE "build"
                   /\ UNCHANGED <<exit_status, exit_reason>>
    /\ UNCHANGED <<callVars, nameVars, inspire, defaults, project_name, modules, description,
                   options, name_result, mods_result, clock, github_url, github_token,
                   structure_result>>

\* the operating system refuses the call (OSError): not caught either
BuildStepFails ==
    /\ pc = "build"
    /\ step < BuildLen
    /\ Exit("build_error")
    /\ UNCHANGED <<callVars, nameVars, inspire, defaults, project_name, modules, description,
                   options, name_result, mods_result, fs, step, clock, github_url, github_token,
                   structure_result>>

\* another process creates the target directory while the run has not yet
\* created it (the case the comment of lines 1359-1360 names)
EnvCreatesTarget ==
    /\ pc \in {"validate_name", "precheck"} \/ (pc = "build" /\ step = 0)
    /\ ~TargetExists
    /\ fs' = [fs EXCEPT !.dirs = @ \cup {target_path}]
    /\ UNCHANGED <<callVars, nameVars, pc, inspire, defaults, project_name, modules, description,
                   options, name_result, mods_result, step, clock, github_url, github_token,
                   structure_result, exit_status, exit_reason>>

\* the except clause of lines 1445-1446
CaughtVenv(exc) == exc = "CalledProcessError"

\* lines 1435-1446: python -m venv succeeds or exits with an error status
CreateVenv ==
    /\ pc = "venv"
    /\ \E outcome \in {"ok", "CalledProcessError"} :
          IF outcome = "ok"
          THEN /\ fs' = [fs EXCEPT !.dirs = @ \cup {Under(project_path, <<<<".", "v", "e", "n", "v">>>>)}]
               /\ pc' = IF options.init_git THEN "git_init" ELSE "validate_structure"
               /\ UNCHANGED <<exit_status, exit_reason>>
          ELSE IF CaughtVenv(outcome)
          THEN /\ pc' = IF options.init_git THEN "git_init" ELSE "validate_structure"
               /\ UNCHANGED <<fs, exit_status, exit_reason>>
          ELSE Exit("uncaught_collaborator_error") /\ UNCHANGED fs
    /\ UNCHANGED <<callVars, nameVars, inspire, defaults, project_name, modules, description,
                   options, name_result, mods_result, step, clock, github_url, github_token,
                   structure_result>>

\* CaughtGit without the clause for a missing git executable
CaughtGit_no_missing_git(exc) == exc = "CalledProcessError"

\* the except clauses of lines 1487-1490
CaughtGit(exc) == exc \in {"CalledProcessError", "FileNotFoundError"}

\* what follows a git command that raised exc
GitFailed(exc) ==
    IF CaughtGit(exc)
    THEN pc' = "validate_structure" /\ UNCHANGED <<exit_status, exit_reason>>
    ELSE Exit("uncaught_collaborator_error")

\* line 1453: git init succeeds, exits with an error status, or git is missing
GitInit ==
    /\ pc = "git_init"
    /\ \E outcome \in {"ok", "CalledProcessError", "FileNotFoundError"} :
          IF outcome = "ok"
          THEN /\ fs' = [fs EXCEPT !.dirs = @ \cup {Under(project_path, <<<<".", "g", "i", "t">>>>)}]
               /\ pc' = "git_add"
               /\ UNCHANGED <<exit_status, exit_reason>>
          ELSE GitFailed(outcome) /\ UNCHANGED fs
    /\ UNCHANGED <<callVars, nameVars, inspire, defaults, project_name, modules, description,
                   options, name_result, mods_result, step, clock, github_url, github_token,
                   structure_result>>

\* line 1454
GitAdd ==
    /\ pc = "git_add"
    /\ \E outcome \in {"ok", "CalledProcessError"} :
          IF outcome = "ok"
          THEN pc' = "git_commit" /\ UNCHANGED <<exit_status, exit_reason>>
          ELSE GitFailed(outcome)
    /\ UNCHANGED <<callVars, nameVars, inspire, defaults, project_name, modules, description,
                   options, name_result, mods_result, fs, step, clock, github_url, github_token,
                   structure_result>>

\* lines 1455-1464
GitCommit ==
    /\ pc = "git_commit"
    /\ \E outcome \in {"ok", "CalledProcessError"} :
          IF outcome = "ok"
          THEN /\ pc' = IF options.create_github THEN "github" ELSE "validate_structure"
               /\ UNCHANGED <<exit_status, exit_reason>>
          ELSE GitFailed(outcome)
    /\ UNCHANGED <<callVars, nameVars, inspire, defaults, project_name, modules, description,
                   options, name_result, mods_result, fs, step, clock, github_url, github_token,
                   structure_result>>

\* create_github_repo, lines 784-793: the URL of the answer, or None after
\* an HTTPError or any other exception
create_github_repo(outcome) == IF outcome = "created" THEN "clone_url" ELSE "None"

\* CreateGithub without the test of line 1467: the repository is requested
\* whether or not GITHUB_TOKEN is set
CreateGithub_without_token ==
    /\ pc = "github"
    /\ \E token \in {"unset", "set"}, outcome \in {"created", "HTTPError", "Exception"} :
          /\ github_token' = token
          /\ github_url' = create_github_repo(outcome)
          /\ pc' = IF github_url' # "None" THEN "remote_add" ELSE "validate_structure"
    /\ UNCHANGED <<callVars, nameVars, inspire, defaults, project_name, modules, description,
                   options, name_result, mods_result, fs, step, clock,
                   structure_result, exit_status, exit_reason>>

\* lines 1465-1486: github_token is what os.getenv("GITHUB_TOKEN") returned,
\* "set" for a non-empty value and "unset" for None or the empty string
CreateGithub ==
    /\ pc = "github"
    /\ \E token \in {"unset", "set"}, outcome \in {"created", "HTTPError", "Exception"} :
          /\ github_token' = token
          /\ IF token = "unset"
             THEN pc' = "validate_structure" /\ UNCHANGED github_url
             ELSE /\ github_url' = create_github_repo(outcome)
                  /\ pc' = IF github_url' # "None" THEN "remote_add" ELSE "validate_structure"
    /\ UNCHANGED <<callVars, nameVars, inspire, defaults, project_name, modules, description,
                   options, name_result, mods_result, fs, step, clock,
                   structure_result, exit_status, exit_reason>>

\* lines 1472-1481: CalledProcessError is caught where it is raised
GitRemoteAdd ==
    /\ pc = "remote_add"
    /\ \E outcome \in {"ok", "CalledProcessError"} : pc' = "validate_structure"
    /\ UNCHANGED <<callVars, nameVars, inspire, defaults, project_name, modules, description,
                   options, name_result, mods_result, fs, step, clock, github_url, github_token,
                   structure_result, exit_status, exit_reason>>

\* lines 1492-1494
ValidateStructure ==
    /\ pc = "validate_structure"
    /\ structure_result' =
          validate_structure(fs, project_path, project_name, snake_package, modules)
    /\ pc' = "summary"
    /\ UNCHANGED <<callVars, nameVars, inspire, defaults, project_name, modules, description,
                   options, name_result, mods_result, fs, step, clock, github_url, github_token,
                   exit_status, exit_reason>>

\* Summary with the result of validate_structure deciding the exit status
Summary_gated ==
    /\ pc = "summary"
    /\ IF structure_result.ok
       THEN pc' = "done" /\ exit_status' = 0 /\ UNCHANGED exit_reason
       ELSE Exit("structure_invalid")
    /\ UNCHANGED <<callVars, nameVars, inspire, defaults, project_name, modules, description,
                   options, name_result, mods_result, fs, step, clock, github_url, github_token,
                   structure_result>>

\* lines 1496-1508: the summary is printed and main returns
Summary ==
    /\ pc = "summary"
    /\ pc' = "done"
    /\ exit_status' = 0
    /\ UNCHANGED <<callVars, nameVars, inspire, defaults, project_name, modules, description,
                   options, name_result, mods_result, fs, step, clock, github_url, github_token,
                   structure_result, exit_reason>>

Init == fn = "" /\ arg = <<>> /\ ret = <<>> /\ pc = "start" /\ MainFresh

Run ==
    \/ ParseArgs
    \/ Extract
    \/ AskProjectName
    \/ ValidateProjectName
    \/ AskModules
    \/ ValidateModules
    \/ AskOptions
    \/ PreBuildCheck
    \/ BuildStep
    \/ CreateVenv
    \/ GitInit
    \/ GitAdd
    \/ GitCommit
    \/ CreateGithub
    \/ GitRemoteAdd
    \/ ValidateStructure
    \/ Summary

Next ==
    \/ Run
    \/ BuildStepFails
    \/ EnvCreatesTarget

Spec == Init /\ [][Next]_vars

\* the steps of main after the build, lines 1435-1508
AfterBuild ==
    \/ CreateVenv
    \/ GitInit
    \/ GitAdd
    \/ GitCommit
    \/ CreateGithub
    \/ GitRemoteAdd
    \/ ValidateStructure
    \/ Summary

\* main is a sequential program: once the build is over, while it has a
\* next step it takes it
FairSpec == Spec /\ WF_vars(AfterBuild)

\* files and empty directories of the project that something else may remove
\* once the build is over
Removable == { <<<<"L", "I", "C", "E", "N", "S", "E">>>>, <<<<"t", "e", "s", "t">>, <<"d", "o", "c", "s">>>> }

\* another process removes a file or an empty directory of the project
\* before main validates the structure
EnvRemoves ==
    /\ pc = "validate_structure"
    /\ \E rel \in Removable :
          LET path == Under(project_path, rel)
          IN  /\ path \in fs.dirs \cup DOMAIN fs.files
              /\ fs' = [dirs |-> fs.dirs \ {path},
                        files |-> [p \in DOMAIN fs.files \ {path} |-> fs.files[p]],
                        error |-> fs.error]
    /\ UNCHANGED <<callVars, nameVars, pc, inspire, defaults, project_name, modules,
                   description, options, name_result, mods_result, step, clock,
                   github_url, github_token, structure_result, exit_status, exit_reason>>

NextDiag == Next \/ EnvRemoves

\* main in a directory that other processes change after the build
SpecDiag == Init /\ [][NextDiag]_vars /\ WF_vars(AfterBuild)

----------------------------------------------------------------------------
(* Inputs of the pure-call specifications                                  *)

MaxLen == 3
MaxModules == 3

Alphabet == {"a", "B", "1", " ", "_", "-", "!"}

Strings(n) == UNION {[1..k -> Alphabet] : k \in 0..n}

RECURSIVE Rep(_, _)
Rep(c, n) == IF n = 0 THEN <<>> ELSE <<c>> \o Rep(c, n - 1)

SpecialNames ==
    reserved_names \cup KwList \cup reserved_dirs \cup
    { <<"M", "y", " ", "C", "o", "o", "l", " ", "A", "P", "I", "!", "!">>, <<"A", "u", "t", "h">>, <<"a", "u", "t", "h">>, <<"a", "-", "!", "-", "b">>, <<"a", "_", "!", "_", "b">>, <<"2", "f", "a">>,
      Rep("a", MaxNameLen), Rep("a", MaxNameLen + 1) }

NameInputs == Strings(MaxLen) \cup SpecialNames

ModuleEntries ==
    { Text(<<"A", "u", "t", "h">>), Text(<<"a", "u", "t", "h">>), Text(<<" ", "a", "u", "t", "h", " ">>), Text(<<"u", "s", "e", "r", "s">>),
      Text(<<"c", "l", "a", "s", "s">>), Text(<<"!", "!">>), Text(<<" ", " ">>), Text(<<>>),
      NoneVal, IntVal(0), IntVal(5) }

ModuleLists == UNION {[1..k -> ModuleEntries] : k \in 0..MaxModules}

----------------------------------------------------------------------------
(* SpecNorm: the normalizers and the single-name validators applied to a   *)
(* name drawn from NameInputs                                              *)

InitNorm == fn = "" /\ arg \in NameInputs /\ ret = <<>> /\ MainIdle

\* the value the next application takes: the input, then the last output
NextArg == IF ret = <<>> THEN arg ELSE ret[Len(ret)]

Call_to_kebab_case ==
    /\ fn \in {"", "to_kebab_case"}
    /\ Len(ret) < 2
    /\ fn' = "to_kebab_case"
    /\ ret' = Append(ret, to_kebab_case(NextArg))
    /\ UNCHANGED <<arg, mainVars>>

Call_to_snake_case ==
    /\ fn \in {"", "to_snake_case"}
    /\ Len(ret) < 2
    /\ fn' = "to_snake_case"
    /\ ret' = Append(ret, to_snake_case(NextArg))
    /\ UNCHANGED <<arg, mainVars>>

Call_validate_module_name ==
    /\ fn = ""
    /\ fn' = "validate_module_name"
    /\ ret' = <<validate_module_name(Text(arg))>>
    /\ UNCHANGED <<arg, mainVars>>

Call_validate_project_name ==
    /\ fn = ""
    /\ fn' = "validate_project_name"
    /\ ret' = <<validate_project_name(arg, FALSE, {}, {})>>
    /\ UNCHANGED <<arg, mainVars>>

NextNorm ==
    \/ Call_to_kebab_case
    \/ Call_to_snake_case
    \/ Call_validate_module_name
    \/ Call_validate_project_name

SpecNorm == InitNorm /\ [][NextNorm]_vars

----------------------------------------------------------------------------
(* SpecMods: validate_modules applied to a list drawn from ModuleLists     *)

InitMods == fn = "" /\ arg \in ModuleLists /\ ret = <<>> /\ MainIdle

Call_validate_modules ==
    /\ fn = ""
    /\ fn' = "validate_modules"
    /\ ret' = <<validate_modules(arg)>>
    /\ UNCHANGED <<arg, mainVars>>

NextMods == Call_validate_modules

SpecMods == InitMods /\ [][NextMods]_vars

----------------------------------------------------------------------------
(* SpecIco: generate_favicon_ico is called and its bytes are read at the   *)
(* pixel (x, y) that arg names                                             *)

PixelCoordinates == {<<x, y>> : x \in 0..(width - 1), y \in 0..(height - 1)}

InitIco == fn = "" /\ arg \in PixelCoordinates /\ ret = <<>> /\ MainIdle

Call_generate_favicon_ico ==
    /\ fn = ""
    /\ fn' = "generate_favicon_ico"
    /\ ret' = <<ico_data>>
    /\ UNCHANGED <<arg, mainVars>>

NextIco == Call_generate_favicon_ico

SpecIco == InitIco /\ [][NextIco]_vars

----------------------------------------------------------------------------
(* SpecFs: create_directory and write_file called, up to MaxFsCalls times, *)
(* on paths of a small tree below an empty current directory               *)

MaxFsCalls == 3

FsPaths == { <<<<"a">>>>, <<<<"a">>, <<"b">>>>, <<<<"a">>, <<"b">>, <<"c">>>>, <<<<"d">>>>, <<<<"d">>, <<"c">>>> }

\* the variables of main that these calls leave alone
idleVars == <<pc, inspire, defaults, project_name, modules, description, options,
              kebab_name, snake_package, project_path, name_result, mods_result,
              clock, github_url, github_token, structure_result, exit_status, exit_reason>>

InitFs == fn = "" /\ arg = <<>> /\ ret = <<>> /\ MainIdle

\* what a call did: whether it raised, and the directories it created
FsResult(before, after) ==
    [error |-> after.error, created |-> after.dirs \ before.dirs]

Call_create_directory ==
    /\ pc = "idle"
    /\ step < MaxFsCalls
    /\ \E path \in FsPaths :
          LET after == create_directory(fs, path)
          IN  /\ fn' = "create_directory"
              /\ arg' = path
              /\ ret' = <<FsResult(fs, after)>>
              /\ fs' = IF after.error THEN fs ELSE after
    /\ step' = step + 1
    /\ UNCHANGED idleVars

Call_write_file ==
    /\ pc = "idle"
    /\ step < MaxFsCalls
    /\ \E path \in FsPaths :
          LET after == write_file(fs, path, Content("empty", <<>>))
          IN  /\ fn' = "write_file"
              /\ arg' = path
              /\ ret' = <<FsResult(fs, after)>>
              /\ fs' = IF after.error THEN fs ELSE after
    /\ step' = step + 1
    /\ UNCHANGED idleVars

NextFs == Call_create_directory \/ Call_write_file

SpecFs == InitFs /\ [][NextFs]_vars

----------------------------------------------------------------------------
(* SpecMainPy: generate_main_py applied to a project name, its package     *)
(* name and a list of up to MaxMainModules module names                    *)

MaxMainModules == 3

MainPyNames == { <<"m", "y", " ", "a", "p", "p">>, <<"d", "o", "c", "s">> }

MainPyModules == { <<"u", "s", "e", "r", "s">>, <<"A", "u", "t", "h">>, <<"u", "s", "e", "r", " ", "a", "u", "t", "h">> }

MainPyModuleLists ==
    UNION { [1..n -> MainPyModules] : n \in 0..MaxMainModules }

InitMainPy ==
    /\ fn = "" /\ ret = <<>> /\ MainIdle
    /\ \E pname \in MainPyNames, mods \in MainPyModuleLists :
          arg = <<pname, to_snake_case(pname), mods>>

Call_generate_main_py ==
    /\ fn = ""
    /\ fn' = "generate_main_py"
    /\ ret' = <<generate_main_py_text(arg[1], arg[2], arg[3])>>
    /\ UNCHANGED <<arg, mainVars>>

NextMainPy == Call_generate_main_py

SpecMainPy == InitMainPy /\ [][NextMainPy]_vars

----------------------------------------------------------------------------
(* SpecStruct: validate_structure called on a project directory that holds *)
(* some of the paths of a build, made by create_directory and write_file   *)

StructNames == { <<"d", "o", "c", "s">>, <<"m", "y", " ", "a", "p", "p">> }

StructModuleLists == { <<<<"u", "s", "e", "r", "s">>>>, <<<<"u", "s", "e", "r", "s">>, <<"A", "u", "t", "h">>>> }

\* what may be present before the call: required directories, a required
\* file, a directory where a file is required, a file where a directory is
\* required
StructEntries ==
    { [kind |-> "mkdir", rel |-> <<<<"d", "o", "c", "s">>>>],
      [kind |-> "mkdir", rel |-> <<<<"c", "o", "n", "f", "i", "g">>>>],
      [kind |-> "mkdir", rel |-> <<<<"d", "o", "c", "s">>, <<"u", "s", "e", "r", "s">>>>],
      [kind |-> "mkdir", rel |-> <<<<"L", "I", "C", "E", "N", "S", "E">>>>],
      [kind |-> "write", rel |-> <<<<"R", "E", "A", "D", "M", "E", ".", "m", "d">>>>],
      [kind |-> "write", rel |-> <<<<"t", "e", "s", "t">>>>] }

InitStruct ==
    /\ fn = "" /\ arg = <<>> /\ ret = <<>>
    /\ pc = "idle"
    /\ inspire = FALSE
    /\ defaults = InitialDefaults
    /\ project_name \in StructNames
    /\ modules \in StructModuleLists
    /\ description = ""
    /\ options = NoOptions
    /\ kebab_name = to_kebab_case(project_name)
    /\ snake_package = to_snake_case(project_name)
    /\ project_path = PathJoin(Cwd, kebab_name)
    /\ name_result = NotRun
    /\ mods_result = ModsNotRun
    /\ fs = EmptyFs
    /\ step = 0
    /\ clock = 2025
    /\ github_url = "None"
    /\ github_token = "unread"
    /\ structure_result = NoStructureResult
    /\ exit_status = "running"
    /\ exit_reason = ""

\* a path of the project is created, by create_directory or write_file
Materialize ==
    /\ fn = ""
    /\ \E e \in StructEntries :
          LET after == ApplyOp(fs, [kind |-> e.kind,
                                    path |-> Under(project_path, e.rel),
                                    content |-> Content("empty", <<>>)])
          IN  /\ ~after.error
              /\ after # fs
              /\ fs' = after
    /\ UNCHANGED <<callVars, step, idleVars>>

Call_validate_structure ==
    /\ fn = ""
    /\ fn' = "validate_structure"
    /\ ret' = <<validate_structure(fs, project_path, project_name, snake_package,
                                   modules)>>
    /\ UNCHANGED <<arg, mainVars>>

NextStruct == Materialize \/ Call_validate_structure

SpecStruct == InitStruct /\ [][NextStruct]_vars

----------------------------------------------------------------------------
(* Claims about the normalizers and validators                             *)

\* C6: to_kebab_case and to_snake_case are idempotent: applying either to
\* its own output returns that output unchanged.
C6_Idempotent ==
    (fn \in {"to_kebab_case", "to_snake_case"} /\ Len(ret) = 2) => ret[2] = ret[1]

\* a second application was made to a name that the first one changed
C6_Witness ==
    /\ fn = "to_kebab_case" /\ Len(ret) = 2
    /\ arg = <<"a", "-", "!", "-", "b">> /\ ret[1] = <<"a", "-", "b">> /\ ret[2] = <<"a", "-", "b">>

\* the entries of a list that are text and normalize to canonical name c
EntriesOf(mods, c) ==
    {i \in DOMAIN mods : mods[i].t = "str" /\ to_snake_case(mods[i].s) = c}

CanonicalNames(mods) ==
    {to_snake_case(mods[i].s) : i \in {j \in DOMAIN mods : mods[j].t = "str"}}

\* the 'Duplicate module name' errors reported for canonical name c
DuplicateErrors(errors, c) ==
    {i \in DOMAIN errors : errors[i].error = [kind |-> "duplicate", snake |-> c]}

C3_NeverRaises == fn = "validate_modules" => ~ret[1].raised

\* C7: validate_module_name rejects every keyword and every member of the
\* curated reserved-name set, and reports 'class' as a keyword.
C7_ReservedRejected ==
    (fn = "validate_module_name" /\ arg \in KwList \cup reserved_names) =>
        /\ ~ret[1].ok
        /\ arg = <<"c", "l", "a", "s", "s">> => ret[1].error.kind = "keyword"

\* entry i of the list has the canonical name of an earlier entry
DuplicatesEarlier(mods, i) ==
    \E j \in 1..(i - 1) :
        /\ mods[j].t = "str" /\ mods[i].t = "str"
        /\ to_snake_case(mods[j].s) = to_snake_case(mods[i].s)

\* the positions of the entries that fail validate_module_name or duplicate
\* an earlier entry, in list order
FailingEntries(mods) ==
    SelectSeq([i \in DOMAIN mods |-> i],
              LAMBDA i : ~validate_module_name(mods[i]).ok \/ DuplicatesEarlier(mods, i))

\* C11: validate_modules examines every entry whatever failed before: the
\* error list it returns holds, in list order, one error for every entry
\* that fails validate_module_name or duplicates an earlier entry, and ok
\* is true exactly when the error list is empty.
C11_AllErrorsInOrder ==
    (fn = "validate_modules" /\ ~ret[1].raised) =>
        LET failing == FailingEntries(arg)
            errors == ret[1].errors
        IN  /\ Len(errors) = Len(failing)
            /\ \A k \in DOMAIN errors :
                   /\ errors[k].module = arg[failing[k]]
                   /\ IF validate_module_name(arg[failing[k]]).ok
                      THEN errors[k].error.kind = "duplicate"
                      ELSE errors[k].error = validate_module_name(arg[failing[k]]).error
            /\ ret[1].ok <=> errors = <<>>

\* an invalid first entry did not stop the examination: the third entry
\* was reported as a duplicate of the second
C11_Witness ==
    /\ fn = "validate_modules" /\ ~ret[1].raised
    /\ arg = <<Text(<<"!", "!">>), Text(<<"a", "u", "t", "h">>), Text(<<"A", "u", "t", "h">>)>>
    /\ Len(ret[1].errors) = 2
    /\ ret[1].errors[2].error.kind = "duplicate"

\* C21: for every project name validate_project_name accepts, the package
\* name to_snake_case(project_name) is not empty, is an identifier (starts
\* with a letter or an underscore) and is not a keyword.
C21_PackageNameUsable ==
    (fn = "validate_project_name" /\ ret[1].ok) =>
        LET package_name == to_snake_case(arg)
        IN  /\ package_name # <<>>
            /\ IsIdentifier(package_name)
            /\ ~IsKeyword(package_name)

\* str.replace('-', '_')
HyphensToUnderscores(s) == [i \in DOMAIN s |-> IF s[i] = "-" THEN "_" ELSE s[i]]

\* C22: for every input x, to_snake_case(x) is to_kebab_case(x) with every
\* '-' replaced by '_'; one of the two is empty exactly when the other is.
C22_FormsAgree ==
    (fn = "to_snake_case" /\ Len(ret) >= 1) =>
        LET kebab == to_kebab_case(arg)
        IN  /\ ret[1] = HyphensToUnderscores(kebab)
            /\ (ret[1] = <<>>) <=> (kebab = <<>>)

\* the example: 'My Cool API!!' gives 'my_cool_api' and 'my-cool-api'
C22_Witness ==
    /\ fn = "to_snake_case" /\ Len(ret) = 1
    /\ arg = <<"M", "y", " ", "C", "o", "o", "l", " ", "A", "P", "I", "!", "!">>
    /\ ret[1] = <<"m", "y", "_", "c", "o", "o", "l", "_", "a", "p", "i">>
    /\ to_kebab_case(arg) = <<"m", "y", "-", "c", "o", "o", "l", "-", "a", "p", "i">>

\* C8: validate_project_name without the existence check rejects every
\* reserved directory name given as the project name.
C8_ReservedDirsRejected ==
    (fn = "validate_project_name" /\ arg \in reserved_dirs) => ~ret[1].ok

----------------------------------------------------------------------------
(* Claims about generate_favicon_ico                                       *)

\* the n bytes of b that start at offset off (from 0)
BytesAt(b, off, n) == SubSeq(b, off + 1, off + n)

\* the unsigned little-endian number held by the n bytes at offset off
RECURSIVE NumberAt(_, _, _)
NumberAt(b, off, n) ==
    IF n = 0 THEN 0 ELSE b[off + 1] + 256 * NumberAt(b, off + 1, n - 1)

\* C12: the bytes of the icon start with 00 00 01 00 01 00; the directory
\* entry declares width 16, height 16, 1 colour plane, 32 bits per pixel
\* and data offset 22; the bitmap sub-header declares height 32; the total
\* length is 6 + 16 + 40 + 1024 + 32 = 1118 bytes.
C12_IconHeader ==
    fn = "generate_favicon_ico" =>
        LET b == ret[1]
        IN  /\ Len(b) = 6 + 16 + 40 + 1024 + 32
            /\ Len(b) = 1118
            /\ BytesAt(b, 0, 6) = <<0, 0, 1, 0, 1, 0>>
            /\ b[6 + 1] = 16
            /\ b[7 + 1] = 16
            /\ NumberAt(b, 10, 2) = 1
            /\ NumberAt(b, 12, 2) = 32
            /\ NumberAt(b, 18, 4) = 22
            /\ NumberAt(b, 22 + 8, 4) = 32

\* the icon was generated and is 1118 bytes long, its bitmap sub-header
\* starting with its own size, 40
C12_Witness ==
    /\ fn = "generate_favicon_ico"
    /\ Len(ret[1]) = 1118
    /\ NumberAt(ret[1], 22, 4) = 40

\* C23: the image byte-length declared in the directory entry (bytes 14..17,
\* little-endian) equals the number of bytes from the declared data offset
\* (bytes 18..21) to the end of the file, the bitmap sub-header, the pixel
\* data and the opacity mask together.
C23_DeclaredSizeIsImageSize ==
    fn = "generate_favicon_ico" =>
        LET b == ret[1]
        IN  /\ NumberAt(b, 18, 4) = 22
            /\ NumberAt(b, 14, 4) = Len(b) - NumberAt(b, 18, 4)
            /\ NumberAt(b, 14, 4) = bmp_header_size + pixel_data_size + and_mask_size

\* C19: the pixel block starts at byte 62 and is stored bottom-up: the 4
\* bytes at offset 62 + 4*((15 - y)*16 + x) are (100 + (3x mod 50),
\* 50 + (2y mod 30), 30, 255) for the pixel (x, y), every channel value lies
\* in 0..255, and the 32 bytes after the pixel block are all zero.
C19_PixelBlock ==
    fn = "generate_favicon_ico" =>
        LET b == ret[1]
            x == arg[1]
            y == arg[2]
        IN  /\ BytesAt(b, 62 + 4 * ((15 - y) * 16 + x), 4)
                   = <<100 + ((3 * x) % 50), 50 + ((2 * y) % 30), 30, 255>>
            /\ \A i \in 0..1023 : b[62 + i + 1] \in 0..255
            /\ BytesAt(b, 62 + 1024, 32) = [i \in 1..32 |-> 0]
            /\ Len(b) = 62 + 1024 + 32

\* the pixel (15, 15), whose green channel wraps to 50, was read in the
\* first stored row
C19_Witness ==
    /\ fn = "generate_favicon_ico"
    /\ arg = <<15, 15>>
    /\ BytesAt(ret[1], 62 + 4 * 15, 4) = <<145, 50, 30, 255>>

----------------------------------------------------------------------------
(* SpecGen: two runs of the build phase, each into an empty directory, for *)
(* one validated project name, description and module list, the clock      *)
(* moving meanwhile; ret collects the files of each run with their content *)

GenNames ==
    {n \in {<<"m", "y", "_", "f", "a", "s", "t", "a", "p", "i", "_", "p", "r", "o", "j", "e", "c", "t">>, <<"d", "o", "c", "s">>, <<"M", "y", " ", "C", "o", "o", "l", " ", "A", "P", "I", "!", "!">>, <<"c", "o", "n", "f", "i", "g">>} :
        validate_project_name(n, FALSE, {}, {}).ok}

GenModuleLists ==
    {m \in UNION {[1..k -> {<<"u", "s", "e", "r", "s">>, <<"A", "u", "t", "h">>, <<"c", "o", "n", "f", "i", "g", "_", "e", "x", "a", "m", "p", "l", "e">>}] : k \in 1..MaxTypedModules} :
        validate_modules([i \in DOMAIN m |-> Text(m[i])]).ok}

InitGen ==
    /\ fn = "" /\ arg = <<>> /\ ret = <<>>
    /\ pc = "generate"
    /\ inspire = FALSE
    /\ defaults = InitialDefaults
    /\ project_name \in GenNames
    /\ modules \in GenModuleLists
    /\ description \in {InitialDefaults.description, "typed description"}
    /\ options = NoOptions
    /\ kebab_name = to_kebab_case(project_name)
    /\ snake_package = to_snake_case(project_name)
    /\ project_path = PathJoin(Cwd, kebab_name)
    /\ name_result = Valid
    /\ mods_result = [raised |-> FALSE, ok |-> TRUE, errors |-> <<>>]
    /\ fs = EmptyFs
    /\ step = 0
    /\ clock = 2025
    /\ github_url = "None"
    /\ github_token = "unread"
    /\ structure_result = NoStructureResult
    /\ exit_status = "running"
    /\ exit_reason = ""

\* the next create_directory or write_file call of the current run
Generate ==
    /\ pc = "generate"
    /\ Len(ret) < 2
    /\ step < BuildLen
    /\ fs' = ApplyOp(fs, BuildOps(FALSE)[step + 1])
    /\ step' = step + 1
    /\ UNCHANGED <<callVars, nameVars, pc, inspire, defaults, project_name, modules, description,
                   options, name_result, mods_result, clock, github_url, github_token,
                   structure_result, exit_status, exit_reason>>

\* the run is over: its files are kept and the next run starts afresh
Collect ==
    /\ pc = "generate"
    /\ step = BuildLen
    /\ fn' = "generate"
    /\ ret' = Append(ret, fs.files)
    /\ fs' = EmptyFs
    /\ step' = 0
    /\ UNCHANGED <<arg, nameVars, pc, inspire, defaults, project_name, modules, description,
                   options, name_result, mods_result, clock, github_url, github_token,
                   structure_result, exit_status, exit_reason>>

\* the new year begins
Tick ==
    /\ clock + 1 \in Years
    /\ clock' = clock + 1
    /\ UNCHANGED <<callVars, nameVars, pc, inspire, defaults, project_name, modules, description,
                   options, name_result, mods_result, fs, step, github_url, github_token,
                   structure_result, exit_status, exit_reason>>

NextGen == Generate \/ Collect \/ Tick

SpecGen == InitGen /\ [][NextGen]_vars

\* C2: two generation runs with the same project name, description and
\* module list produce the same content for every artifact, whenever each
\* of them runs.
C2_Deterministic == (fn = "generate" /\ Len(ret) = 2) => ret[1] = ret[2]

----------------------------------------------------------------------------
(* Claims about main                                                       *)

NothingCreated ==
    /\ step = 0
    /\ fs.files = NoFiles
    /\ fs.dirs \subseteq {target_path}

\* C4: once the build phase has completed, validate_structure for the same
\* project path, package name and module list returns True with no missing
\* file and no missing directory, and that is what main's call returns.
C4_StructureComplete ==
    /\ BuildDone =>
          validate_structure(fs, project_path, project_name, snake_package, modules)
              = [ok |-> TRUE, errors |-> <<>>]
    /\ pc \in {"summary", "done"} => structure_result = [ok |-> TRUE, errors |-> <<>>]

\* a run for the project docs, whose package directory is the docs
\* directory, with two modules, was built and validated
C4_Witness ==
    /\ pc = "done"
    /\ snake_package = <<"d", "o", "c", "s">>
    /\ Len(modules) = 2
    /\ step = BuildLen
    /\ structure_result.ok

\* C5: a run that carries out the project-name validation or the pre-build
\* check while <cwd>/<kebab_name> exists ends there with exit status 1,
\* having created no directory and written no file.
C5_ExistingTargetAborts ==
    [][ (pc \in {"validate_name", "precheck"} /\ pc' # pc /\ TargetExists)
            => (/\ pc' = "exit"
                /\ exit_status' = 1
                /\ NothingCreated
                /\ UNCHANGED <<fs, step, project_name>>) ]_vars

\* the directory appeared after the name was validated and the pre-build
\* check ended the run
C5_Witness ==
    /\ pc = "exit"
    /\ exit_reason = "dir_exists"
    /\ name_result.ok
    /\ TargetExists
    /\ NothingCreated

C10_CollaboratorsNeverAbort ==
    /\ [](exit_reason # "uncaught_collaborator_error")
    /\ BuildDone ~> (/\ pc = "done"
                     /\ exit_status = 0
                     /\ structure_result # NoStructureResult)

\* a run completed although the extraction service gave nothing, the
\* virtual environment and git init failed
C10_Witness ==
    /\ pc = "done"
    /\ exit_status = 0
    /\ inspire /\ defaults = InitialDefaults
    /\ options.init_git /\ options.create_github
    /\ Under(project_path, <<<<".", "v", "e", "n", "v">>>>) \notin fs.dirs
    /\ Under(project_path, <<<<".", "g", "i", "t">>>>) \notin fs.dirs

\* the paths validate_structure requires, below the project directory
RequiredFilePaths ==
    LET rf == required_files(snake_package, modules)
    IN  {Under(project_path, rf[i]) : i \in DOMAIN rf}

RequiredDirPaths ==
    LET rd == required_dirs(snake_package, modules)
    IN  {Under(project_path, rd[i]) : i \in DOMAIN rd}

\* C13: when the build phase is over, the files and directories it created
\* below the project directory are exactly the files and directories
\* validate_structure requires for the same project path, package name and
\* module list.
C13_BuiltIsRequired ==
    pc = "venv" =>
        /\ DOMAIN fs.files = RequiredFilePaths
        /\ fs.dirs \ {project_path} = RequiredDirPaths
----------------------------------------------------------------------------
(* Claims about write_file                                                 *)

\* the step is a call of write_file
WriteFileCalled == fn' = "write_file" /\ step' = step + 1

\* the parent directory of the path does not exist
ParentMissing(f, path) == Parent(path) \notin f.dirs \cup {Cwd}

\* C14 as stated: writing a file whose parent directory does not exist
\* fails, and the missing directory is not created.
C14_Original ==
    [][ (WriteFileCalled /\ ParentMissing(fs, arg'))
            => (ret'[1].error /\ fs' = fs) ]_vars

\* C14 amended: writing a file whose parent directory does not exist
\* creates the parent and its missing ancestors and writes the file; the
\* write fails, nothing being created, only when the parent or one of its
\* ancestors is a file.
C14_Amended ==
    [][ (WriteFileCalled /\ ParentMissing(fs, arg'))
            => IF \E a \in Ancestors(Parent(arg')) : a \in DOMAIN fs.files
               THEN ret'[1].error /\ fs' = fs
               ELSE /\ ~ret'[1].error
                    /\ fs'.dirs = fs.dirs \cup Ancestors(Parent(arg'))
                    /\ ret'[1].created # {}
                    /\ DOMAIN fs'.files = DOMAIN fs.files \cup {arg'}
                    /\ fs'.files[arg'] = Content("empty", <<>>) ]_vars

\* a/b/c was written into an empty directory: a and a/b were created
C14_Witness ==
    /\ fn = "write_file"
    /\ arg = <<<<"a">>, <<"b">>, <<"c">>>>
    /\ ~ret[1].error
    /\ ret[1].created = {<<<<"a">>>>, <<<<"a">>, <<"b">>>>}
    /\ arg \in DOMAIN fs.files
----------------------------------------------------------------------------
(* Claims about the order of the build                                     *)

\* the project root and the declared subdirectories of the run
DeclaredDirs == {project_path} \cup RequiredDirPaths

\* the next operation of the build is a file write
NextIsWrite ==
    pc = "build" /\ step < BuildLen /\ BuildOps(FALSE)[step + 1].kind = "write"

\* C15: in a build the project root and every declared subdirectory are
\* created before the first file is written: whenever a file is about to
\* be written or has been written, all of them exist, and so does the
\* parent directory of the file about to be written.
C15_DirsBeforeFiles ==
    /\ NextIsWrite =>
          /\ DeclaredDirs \subseteq fs.dirs
          /\ Parent(BuildOps(FALSE)[step + 1].path) \in fs.dirs
    /\ (pc = "build" /\ fs.files # NoFiles) => DeclaredDirs \subseteq fs.dirs

\* the first file of a build with two modules has just been written, and
\* the docs directory of each module exists
C15_Witness ==
    /\ pc = "build"
    /\ Cardinality(DOMAIN fs.files) = 1
    /\ Len(modules) = 2
    /\ NextIsWrite
    /\ \A i \in DOMAIN modules :
           Under(project_path, <<<<"d", "o", "c", "s">>, to_snake_case(modules[i])>>) \in fs.dirs
----------------------------------------------------------------------------
(* Claims about the structure validation of main                           *)

\* C16: structure validation is not a gate: whether validate_structure
\* returned True or False, main goes on to the summary and returns
\* normally, and the exit status is 0 whatever is missing.
C16_ValidationIsNotAGate ==
    /\ [](pc = "summary" => exit_status = "running")
    /\ [](pc = "done" => exit_status = 0)
    /\ [](pc = "exit" => structure_result = NoStructureResult)
    /\ (pc = "summary") ~> (pc = "done" /\ exit_status = 0)

\* a run ended normally although validate_structure had reported a
\* missing file and a missing directory
C16_Witness ==
    /\ pc = "done"
    /\ exit_status = 0
    /\ ~structure_result.ok
    /\ Len(structure_result.errors) = 2
----------------------------------------------------------------------------
(* Claims about validate_structure                                         *)

\* the entries of an error list with the given kind and relative path
EntriesFor(errors, kind, rel) ==
    {i \in DOMAIN errors : errors[i] = [kind |-> kind, path |-> rel]}

\* the members of a list, as a set
Members(seq) == {seq[i] : i \in DOMAIN seq}

\* C17: the error list of validate_structure holds exactly one 'Missing'
\* entry for each required file that does not exist, exactly one 'Missing
\* directory' entry for each required directory that is not a directory,
\* and nothing else; the result is True exactly when there is none.
C17_EveryProblemOnce ==
    fn = "validate_structure" =>
        LET errors == ret[1].errors
            rf == Members(required_files(snake_package, modules))
            rd == Members(required_dirs(snake_package, modules))
        IN  /\ \A rel \in rf :
                   Cardinality(EntriesFor(errors, "Missing", rel)) =
                       IF PathExists(fs.dirs, DOMAIN fs.files, Under(project_path, rel))
                       THEN 0 ELSE 1
            /\ \A rel \in rd :
                   Cardinality(EntriesFor(errors, "Missing directory", rel)) =
                       IF Under(project_path, rel) \in fs.dirs THEN 0 ELSE 1
            /\ \A i \in DOMAIN errors :
                   \/ errors[i].kind = "Missing" /\ errors[i].path \in rf
                   \/ errors[i].kind = "Missing directory" /\ errors[i].path \in rd
            /\ ret[1].ok <=> errors = <<>>

----------------------------------------------------------------------------
(* Claims about generate_main_py                                           *)

\* the lines of a text from position i on (str.split on the newline)
RECURSIVE LinesFrom(_, _)
LinesFrom(text, i) ==
    LET nl == {j \in i..Len(text) : text[j] = "\n"}
    IN  IF nl = {} THEN <<SubSeq(text, i, Len(text))>>
        ELSE LET j == CHOOSE j \in nl : \A k \in nl : j <= k
             IN  <<SubSeq(text, i, j - 1)>> \o LinesFrom(text, j + 1)

HasPrefix(line, p) == Len(line) >= Len(p) /\ SubSeq(line, 1, Len(p)) = p

HasSuffix(line, p) ==
    Len(line) >= Len(p) /\ SubSeq(line, Len(line) - Len(p) + 1, Len(line)) = p

HasInfix(line, p) ==
    \E i \in 1..(Len(line) - Len(p) + 1) : SubSeq(line, i, i + Len(p) - 1) = p

\* the part of a line between a prefix and a suffix it has
Between(line, p, q) == SubSeq(line, Len(p) + 1, Len(line) - Len(q))

IsImportLine(line) ==
    HasPrefix(line, <<"f", "r", "o", "m", " ">>) /\ HasInfix(line, <<" ", "i", "m", "p", "o", "r", "t", " ", "i", "n", "i", "t", "_", "m", "o", "d", "u", "l", "e", " ", "a", "s", " ">>)

IsInitCall(line) == HasPrefix(line, <<" ", " ", " ", " ">>) /\ HasSuffix(line, <<"_", "i", "n", "i", "t", "(", ")">>)

IsListEntry(line) ==
    /\ HasPrefix(line, <<" ", " ", " ", " ", " ", " ", " ", " ", "\"">>) /\ HasSuffix(line, <<"\"", ",">>)
    /\ Len(line) >= 11
    /\ \A i \in 10..(Len(line) - 2) :
          line[i] \in LowerChars \cup DigitChars \cup {"_"}

IsPingRoute(line) == HasPrefix(line, <<"@", "a", "p", "p", ".", "g", "e", "t", "(", "\"", "/">>) /\ HasSuffix(line, <<"/", "p", "i", "n", "g", "\"", ")">>)

\* C18: the text generate_main_py returns holds one import line, one init
\* call, one index-list entry and one '/<snake_name>/ping' route per module
\* of the list, each of the four in the order of the module list.
C18_OnePerModuleInOrder ==
    fn = "generate_main_py" =>
        LET lines == LinesFrom(ret[1], 1)
            sm == SnakeModules(arg[3])
            import_lines == SelectSeq(lines, IsImportLine)
            init_lines == SelectSeq(lines, IsInitCall)
            entry_lines == SelectSeq(lines, IsListEntry)
            route_lines == SelectSeq(lines, IsPingRoute)
        IN  /\ DOMAIN import_lines = DOMAIN arg[3]
            /\ \A i \in DOMAIN import_lines :
                  HasPrefix(import_lines[i],
                            <<"f", "r", "o", "m", " ">> \o arg[2] \o <<".">> \o sm[i] \o <<" ", "i", "m", "p", "o", "r", "t", " ">>)
            /\ DOMAIN init_lines = DOMAIN arg[3]
            /\ \A i \in DOMAIN init_lines :
                  Between(init_lines[i], <<" ", " ", " ", " ">>, <<"_", "i", "n", "i", "t", "(", ")">>) = sm[i]
            /\ DOMAIN entry_lines = DOMAIN arg[3]
            /\ \A i \in DOMAIN entry_lines :
                  Between(entry_lines[i], <<" ", " ", " ", " ", " ", " ", " ", " ", "\"">>, <<"\"", ",">>) = sm[i]
            /\ DOMAIN route_lines = DOMAIN arg[3]
            /\ \A i \in DOMAIN route_lines :
                  Between(route_lines[i], <<"@", "a", "p", "p", ".", "g", "e", "t", "(", "\"", "/">>, <<"/", "p", "i", "n", "g", "\"", ")">>) = sm[i]

\* three modules given out of alphabetical order, two of them changed by
\* to_snake_case: three routes, the second of them /auth/ping
C18_Witness ==
    /\ fn = "generate_main_py"
    /\ arg[3] = <<<<"u", "s", "e", "r", "s">>, <<"A", "u", "t", "h">>, <<"u", "s", "e", "r", " ", "a", "u", "t", "h">>>>
    /\ LET route_lines == SelectSeq(LinesFrom(ret[1], 1), IsPingRoute)
       IN  /\ Len(route_lines) = 3
           /\ route_lines[2] = <<"@", "a", "p", "p", ".", "g", "e", "t", "(", "\"", "/", "a", "u", "t", "h", "/", "p", "i", "n", "g", "\"", ")">>
           /\ route_lines[3] = <<"@", "a", "p", "p", ".", "g", "e", "t", "(", "\"", "/", "u", "s", "e", "r", "_", "a", "u", "t", "h", "/", "p", "i", "n", "g", "\"", ")">>

----------------------------------------------------------------------------
(* Claims about the files of one build                                     *)

\* the write_file calls among the first n calls of the build
WritesAmong(n) ==
    LET ops == BuildOps(FALSE)
    IN  {i \in 1..n : ops[i].kind = "write"}

\* C20: for a project name and a module list that pass validation, the
\* file paths written during one build are pairwise distinct: every
\* write_file call made so far has created a file of its own.
C20_WrittenPathsDistinct ==
    (pc = "generate" /\ ~fs.error) =>
        Cardinality(DOMAIN fs.files) = Cardinality(WritesAmong(step))

----------------------------------------------------------------------------
(* Claims about the git steps of main                                      *)

\* every write_file call of the build has been made and its file exists
AllFilesWritten ==
    LET ops == BuildOps(FALSE)
    IN  /\ step = Len(ops)
        /\ \A i \in DOMAIN ops :
              ops[i].kind = "write" => ops[i].path \in DOMAIN fs.files

\* git init has succeeded: the repository directory exists
GitInitialized == Under(project_path, <<<<".", "g", "i", "t">>>>) \in fs.dirs

\* C24: create_github_repo is called only when the user chose git
\* initialization and GitHub creation, git init, git add and git commit have
\* succeeded one after the other, and GITHUB_TOKEN is set; 'git remote add
\* origin' runs only after create_github_repo returned a URL; each of these
\* steps comes after all the files of the build have been written.
C24_GithubOnlyAfterGit ==
    /\ [](pc \in {"git_init", "git_add", "git_commit", "github", "remote_add"} =>
             /\ options.init_git
             /\ AllFilesWritten)
    /\ [](pc \in {"github", "remote_add"} =>
             /\ options.create_github
             /\ GitInitialized)
    /\ [](github_token # "unread" =>
             /\ options.init_git /\ options.create_github
             /\ GitInitialized
             /\ AllFilesWritten)
    /\ [](github_url # "None" => github_token = "set")
    /\ [](pc = "remote_add" => github_url # "None" /\ github_token = "set")
    /\ [][ /\ pc' # pc =>
                /\ pc' = "git_init" => pc = "venv"
                /\ pc' = "git_add" => pc = "git_init"
                /\ pc' = "git_commit" => pc = "git_add"
                /\ pc' = "github" => pc = "git_commit"
                /\ pc' = "remote_add" => pc = "github"
           /\ github_token' # github_token => pc = "github"
           /\ github_url' # github_url => (pc = "github" /\ github_token' = "set") ]_vars

\* the repository was created with the token set and the remote is about to
\* be added
C24_Witness ==
    /\ pc = "remote_add"
    /\ github_url = "clone_url"
    /\ github_token = "set"
    /\ options.init_git /\ options.create_github
    /\ GitInitialized
    /\ AllFilesWritten
====
